---- MODULE Spec2Model ----
(***************************************************************************)
(* Verification model of the SigilMarkets artifact-minting core            *)
(* (src/src/SigilMarkets/sigils/PositionSigilMint.tsx).                    *)
(*                                                                         *)
(*   SpecCanon : toJsonValue / stableStringify, read back with JSON.parse  *)
(*   SpecSeal  : extractZkFromUnknown / mergePrefer / buildZkSeal          *)
(*   SpecProof : normalizeGroth16Proof on candidate proof objects          *)
(*   SpecRng   : generators built by makeRng in both minters               *)
(*   SpecEmbed : the payload block written by the minters and read back    *)
(*               by parseEmbeddedJson                                      *)
(*   SpecMint  : two minting controls running mintPositionSigil or         *)
(*               mintResolutionSigil, interleaved at their await points    *)
(*   SpecPayload : makePayload on a position record and a vault, followed  *)
(*               by buildZkSeal on its result, as mintPositionSigil does   *)
(*   SpecHelp  : the pure helpers (chunkEvery, buildGoldenArcs,            *)
(*               hexToBits256, the seed functions), one call each          *)
(*   SpecControl : PositionSigilMint controls: clicks, mints, re-renders   *)
(*   SpecExport  : exportSigil (SigilExport), step by step at its awaits   *)
(*   SpecGate    : InhaleGlyphGate: file picks, reads, digests, inhale     *)
(***************************************************************************)
EXTENDS Integers, Sequences, FiniteSets, TLC

VARIABLES
    x,          \* canonicalizer: the value handed to toJsonValue
    cpc,        \* canonicalizer: "input" | "canon" | "parsed" | "threw"
    canonStr,   \* canonicalizer: stableStringify(toJsonValue(x)) of the last run
    prevStr,    \* canonicalizer: canonStr of the run before the last key reordering
    parsed,     \* canonicalizer: JSON.parse(canonStr)
    payload,    \* buildZkSeal argument: the payload record
    pos,        \* buildZkSeal argument: the position record (or undefined)
    vault,      \* buildZkSeal argument: the vault record (or null)
    zk,         \* buildZkSeal locals: the four extracts and their merge
    seal,       \* the ZkSeal returned by buildZkSeal
    okWord,     \* buildSvg: the label derived from the seal
    spc,        \* seal pipeline: "input" | "sealed" | "labelled"
    cand,       \* normalizeGroth16Proof argument
    proof,      \* normalizeGroth16Proof result
    ppc,        \* proof normaliser: "input" | "done" | "threw"
    rngSeed,    \* generators: the seed each generator was built from
    rngKind,    \* generators: the minter whose makeRng built each generator
    rngX,       \* generators: the closure cells `let x`
    rngOut,     \* generators: the values each generator has returned so far
    epay,       \* embedding: the payload handed to the minter
    ekind,      \* embedding: the minter that writes the container
    etext,      \* embedding: the container text
    eread,      \* embedding: what parseEmbeddedJson returned
    epc,        \* embedding: "idle" | "input" | "embedded" | "read"
    gUsd,       \* minting: globalThis.__SM_USD_PER_PHI__
    mint,       \* minting: the calls of mintPositionSigil / mintResolutionSigil
    ctl,        \* minting: the minting controls, one per call
    store,      \* minting: the attachSigil calls the position store received
    harg,       \* helpers: the helper called and its arguments
    hres,       \* helpers: what the helper returned
    hpc,        \* helpers: "idle" | "input" | "done"
    busy,       \* control: the busy state of each PositionSigilMint control
    shown,      \* control: what each control last rendered (its props, can, disabled)
    runs,       \* control: the calls of run
    attached,   \* control: the attachSigil calls the position store received
    xopts,      \* export: the options handed to exportSigil
    xpc,        \* export: "idle" | "called" | "fetching" | "loading" | "encoding" | "returned"
    xtext,      \* export: exportSigil's local svgText
    downloads,  \* export: the file names handed to downloadBlob
    xres,       \* export: what exportSigil returned
    picks,      \* gate: the calls of onPickFile
    gate,       \* gate: the state of InhaleGlyphGate (fileName, svgHash, keys, err)
    vaults      \* gate: the createOrActivateVault calls the vault store received

canonVars == <<x, cpc, canonStr, prevStr, parsed>>
sealVars  == <<payload, pos, vault, zk, seal, okWord, spc>>
proofVars == <<cand, proof, ppc>>
rngVars   == <<rngSeed, rngKind, rngX, rngOut>>
embedVars == <<epay, ekind, etext, eread, epc>>
mintVars  == <<gUsd, mint, ctl, store>>
helpVars  == <<harg, hres, hpc>>
ctrlVars  == <<busy, shown, runs, attached>>
exportVars == <<xopts, xpc, xtext, downloads, xres>>
gateVars  == <<picks, gate, vaults>>
vars      == <<x, cpc, canonStr, prevStr, parsed, payload, pos, vault, zk, seal, okWord, spc, cand, proof, ppc,
               rngSeed, rngKind, rngX, rngOut, epay, ekind, etext, eread, epc,
               gUsd, mint, ctl, store, harg, hres, hpc,
               busy, shown, runs, attached, xopts, xpc, xtext, downloads, xres, picks, gate, vaults>>

(***************************************************************************)
(* Bounds of the model.                                                    *)
(***************************************************************************)
\* depth of the engine's call stack at which a further call raises RangeError
MaxCallStack == 6
\* largest number of keys of an input object and of elements of an input array
MaxWidth == 2
\* largest number of "proof" wrappers around a proof candidate
MaxWrap == 2
\* largest number of calls made on one generator
MaxCalls == 3

(***************************************************************************)
(* Characters and strings.  Strings are TLA+ strings; a character is a     *)
(* string of length 1 and its UTF-16 code unit is its position in the     *)
(* tables AsciiLo and AsciiHi.                                             *)
(***************************************************************************)
AsciiLo == " !\"#$%&'()*+,-./0123456789:;<=>?@ABCDEFGHIJKLMNOPQRSTUVWXYZ[\\]^_"
AsciiHi == "abcdefghijklmnopqrstuvwxyz{|}~"

CharAt(s, i) == SubSeq(s, i, i)

\* code units 32..95 and 97..126 (the grave accent, 96, is not used)
CodeTable == [c \in {CharAt(AsciiLo, i) : i \in 1..Len(AsciiLo)} \cup
                    {CharAt(AsciiHi, i) : i \in 1..Len(AsciiHi)} |->
                 IF \E i \in 1..Len(AsciiLo) : CharAt(AsciiLo, i) = c
                 THEN 31 + (CHOOSE i \in 1..Len(AsciiLo) : CharAt(AsciiLo, i) = c)
                 ELSE 96 + (CHOOSE i \in 1..Len(AsciiHi) : CharAt(AsciiHi, i) = c)]

\* String.prototype.charCodeAt for one character ("\n" is the only control character used)
CodeUnit(c) == IF c = "\n" THEN 10 ELSE CodeTable[c]

RECURSIVE StrLessFrom(_, _, _)
StrLessFrom(a, b, i) ==
    IF i > Len(b) THEN FALSE
    ELSE IF i > Len(a) THEN TRUE
    ELSE LET ca == CodeUnit(CharAt(a, i))
             cb == CodeUnit(CharAt(b, i))
         IN  IF ca < cb THEN TRUE
             ELSE IF ca > cb THEN FALSE
             ELSE StrLessFrom(a, b, i + 1)

\* the JavaScript relational operator a < b on two strings
StrLess(a, b) == StrLessFrom(a, b, 1)

(***************************************************************************)
(* JavaScript values.  Every value is a record of the same shape:          *)
(*   t    : the kind of value                                              *)
(*   s    : string content (strings; the name of a non-finite number)      *)
(*   n    : numeric content (numbers, bigints, booleans as 0/1, ref depth) *)
(*   keys : own enumerable string keys in insertion order (objects)        *)
(*   kids : property values parallel to keys (objects), elements (arrays)  *)
(* A value of kind "ref" is a reference to the n-th enclosing container    *)
(* (1 = the parent), which is how an object graph with a cycle is written. *)
(***************************************************************************)
JV(t, s, n, keys, kids) == [t |-> t, s |-> s, n |-> n, keys |-> keys, kids |-> kids]

Undefined    == JV("undefined", "", 0, <<>>, <<>>)
Null         == JV("null", "", 0, <<>>, <<>>)
Bool(b)      == JV("boolean", "", IF b THEN 1 ELSE 0, <<>>, <<>>)
Num(n)       == JV("number", "", n, <<>>, <<>>)
NonFinite(s) == JV("number", s, 0, <<>>, <<>>)
NegZero      == JV("number", "-0", 0, <<>>, <<>>)
\* the number n + 1/2
Half(n)      == JV("number", "+.5", n, <<>>, <<>>)
BigInt(n)    == JV("bigint", "", n, <<>>, <<>>)
Str(s)       == JV("string", s, 0, <<>>, <<>>)
Arr(kids)    == JV("array", "", 0, <<>>, kids)
Obj(keys, kids) == JV("object", "", 0, keys, kids)
Ref(n)       == JV("ref", "", n, <<>>, <<>>)
\* the outcome of a call that raised "Maximum call stack size exceeded"
RangeError   == JV("RangeError", "", 0, <<>>, <<>>)
\* the outcome of a JSON.parse call that raised SyntaxError
SyntaxError  == JV("SyntaxError", "", 0, <<>>, <<>>)

\* a function on 1..n as the sequence of its values
Tuple(f) == f \o <<>>

IndexOf(seq, e) == IF \E i \in 1..Len(seq) : seq[i] = e
                   THEN CHOOSE i \in 1..Len(seq) : seq[i] = e
                   ELSE 0

\* v[k] for a string key k that is not an array index
Get(v, k) == IF v.t = "object" /\ IndexOf(v.keys, k) > 0
             THEN v.kids[IndexOf(v.keys, k)]
             ELSE Undefined

isRecord(v) == v.t \in {"object", "array"}

IsFiniteNumber(v) == v.t = "number" /\ v.s \in {"", "-0", "+.5"}

RECURSIVE DigitsOf(_)
DigitsOf(n) == IF n < 10 THEN CharAt("0123456789", n + 1)
               ELSE DigitsOf(n \div 10) \o CharAt("0123456789", (n % 10) + 1)

\* String(v) for a number or a bigint
NumberToString(v) ==
    IF v.t = "number" /\ v.s = "-0" THEN "0"
    ELSE IF v.t = "number" /\ v.s = "+.5"
         THEN (IF v.n < 0 THEN "-" \o DigitsOf(0 - v.n - 1) ELSE DigitsOf(v.n)) \o ".5"
    ELSE IF v.t = "number" /\ v.s # "" THEN v.s
    ELSE IF v.n < 0 THEN "-" \o DigitsOf(0 - v.n)
    ELSE DigitsOf(v.n)

\* String(v) for the values that reach the last line of toJsonValue
StringOf(v) ==
    CASE v.t = "undefined" -> "undefined"
      [] v.t = "bigint"    -> NumberToString(v)
      [] v.t = "number"    -> NumberToString(v)
      [] v.t = "string"    -> v.s
      [] v.t = "boolean"   -> IF v.n = 1 THEN "true" ELSE "false"
      [] v.t = "null"      -> "null"
      [] OTHER             -> "[object Object]"

(***************************************************************************)
(* Canonicalization                                                        *)
(***************************************************************************)
isJsonPrimitive(v) == v.t \in {"null", "string", "number", "boolean"}

\* a sort that leaves the keys in insertion order
SortKeysInsertionOrder(keys) == keys

\* keys.sort((a, b) => (a < b ? -1 : a > b ? 1 : 0)) on distinct keys: the
\* key at position i is the one with i - 1 smaller keys
SortKeys(keys) ==
    LET rank == Tuple([i \in 1..Len(keys) |->
                    Cardinality({j \in 1..Len(keys) : StrLess(keys[j], keys[i])})])
    IN  Tuple([i \in 1..Len(keys) |-> keys[CHOOSE j \in 1..Len(keys) : rank[j] = i - 1]])

\* the positions of the keys for which out[k] = ... creates an own property:
\* "__proto__" goes to the inherited setter and creates none
OwnAssigned(keys) == SelectSeq([i \in 1..Len(keys) |-> i], LAMBDA i : keys[i] # "__proto__")

RECURSIVE ToJsonValueAt(_, _, _)
\* one activation of toJsonValue at call depth `depth`; anc are the
\* containers enclosing v, outermost first.  A RangeError raised by a nested
\* call propagates to the caller.
ToJsonValueAt(v, anc, depth) ==
    IF depth > MaxCallStack THEN RangeError
    ELSE IF v.t = "ref"
         THEN ToJsonValueAt(anc[Len(anc) + 1 - v.n], SubSeq(anc, 1, Len(anc) - v.n), depth)
    ELSE IF isJsonPrimitive(v) THEN v
    ELSE IF v.t = "array"
         THEN LET rs == Tuple([i \in 1..Len(v.kids) |-> ToJsonValueAt(v.kids[i], Append(anc, v), depth + 1)])
              IN  IF \E i \in 1..Len(rs) : rs[i] = RangeError THEN RangeError ELSE Arr(rs)
    ELSE IF isRecord(v)
         THEN LET keys == SortKeys(v.keys)
                  rs   == Tuple([i \in 1..Len(keys) |->
                              ToJsonValueAt(Get(v, keys[i]), Append(anc, v), depth + 1)])
                  own  == OwnAssigned(keys)
              IN  IF \E i \in 1..Len(rs) : rs[i] = RangeError THEN RangeError
                  ELSE Obj(Tuple([j \in 1..Len(own) |-> keys[own[j]]]), Tuple([j \in 1..Len(own) |-> rs[own[j]]]))
    ELSE Str(StringOf(v))

toJsonValue(v) == ToJsonValueAt(v, <<>>, 1)

RECURSIVE EscapeFrom(_, _)
\* the characters of s from position i on, each escaped where JSON requires it
EscapeFrom(s, i) ==
    IF i > Len(s) THEN ""
    ELSE IF \A k \in i..Len(s) : CharAt(s, k) \notin {"\"", "\\", "\n"} THEN SubSeq(s, i, Len(s))
    ELSE LET c == CharAt(s, i)
             e == IF c = "\"" THEN "\\\""
                  ELSE IF c = "\\" THEN "\\\\"
                  ELSE IF c = "\n" THEN "\\n"
                  ELSE c
         IN  e \o EscapeFrom(s, i + 1)

\* JSON.stringify(s) for a string s
JsonQuote(s) == "\"" \o EscapeFrom(s, 1) \o "\""

RECURSIVE JoinRange(_, _, _)
JoinRange(parts, lo, hi) ==
    IF lo > hi THEN ""
    ELSE IF lo = hi THEN parts[lo]
    ELSE LET mid == (lo + hi) \div 2
         IN  JoinRange(parts, lo, mid) \o "," \o JoinRange(parts, mid + 1, hi)

\* parts.join(",")
JoinComma(parts) == JoinRange(Tuple(parts), 1, Len(parts))

RECURSIVE stableStringifyRawQuotes(_)
\* a writer that puts strings and keys between quotes without escaping them
stableStringifyRawQuotes(v) ==
    IF v.t = "null" THEN "null"
    ELSE IF v.t = "string" THEN "\"" \o v.s \o "\""
    ELSE IF v.t = "number"
         THEN IF IsFiniteNumber(v) THEN NumberToString(v) ELSE "\"" \o NumberToString(v) \o "\""
    ELSE IF v.t = "boolean" THEN (IF v.n = 1 THEN "true" ELSE "false")
    ELSE IF v.t = "array"
         THEN "[" \o JoinComma([i \in 1..Len(v.kids) |-> stableStringifyRawQuotes(v.kids[i])]) \o "]"
    ELSE IF v.t # "object" THEN "\"" \o StringOf(v) \o "\""
    ELSE LET keys == SortKeys(v.keys)
         IN  "{" \o JoinComma([i \in 1..Len(keys) |->
                       "\"" \o keys[i] \o "\":" \o stableStringifyRawQuotes(Get(v, keys[i]))]) \o "}"

RECURSIVE stableStringify(_)
stableStringify(v) ==
    IF v.t = "null" THEN "null"
    ELSE IF v.t = "string" THEN JsonQuote(v.s)
    ELSE IF v.t = "number"
         THEN IF IsFiniteNumber(v) THEN NumberToString(v) ELSE JsonQuote(NumberToString(v))
    ELSE IF v.t = "boolean" THEN (IF v.n = 1 THEN "true" ELSE "false")
    ELSE IF v.t = "array"
         THEN "[" \o JoinComma([i \in 1..Len(v.kids) |-> stableStringify(v.kids[i])]) \o "]"
    ELSE IF v.t # "object" THEN JsonQuote(StringOf(v))
    ELSE LET keys == SortKeys(v.keys)
         IN  "{" \o JoinComma([i \in 1..Len(keys) |->
                       JsonQuote(keys[i]) \o ":" \o stableStringify(Get(v, keys[i]))]) \o "}"

(***************************************************************************)
(* JSON.parse on compact JSON text (no insignificant white space), as the  *)
(* reader of an embedded block applies it to the canonical string.         *)
(***************************************************************************)
PFail     == [ok |-> FALSE, v |-> SyntaxError, i |-> 0]
POk(v, i) == [ok |-> TRUE, v |-> v, i |-> i]

IsDigit(c) == c \in {CharAt("0123456789", k) : k \in 1..10}

StartsWithAt(s, i, lit) == i + Len(lit) - 1 <= Len(s) /\ SubSeq(s, i, i + Len(lit) - 1) = lit

\* CreateDataProperty: an own property whatever the key, a repeated key overwritten in place
DefineProp(obj, k, val) ==
    IF IndexOf(obj.keys, k) > 0
    THEN [obj EXCEPT !.kids[IndexOf(obj.keys, k)] = val]
    ELSE [obj EXCEPT !.keys = Append(@, k), !.kids = Append(@, val)]

RECURSIVE ParseDigits(_, _, _)
ParseDigits(s, i, acc) ==
    IF i <= Len(s) /\ IsDigit(CharAt(s, i))
    THEN ParseDigits(s, i + 1, acc * 10 + (CodeUnit(CharAt(s, i)) - 48))
    ELSE [n |-> acc, i |-> i]

ParseNumber(s, i) ==
    LET neg == CharAt(s, i) = "-"
        j   == IF neg THEN i + 1 ELSE i
    IN  IF j > Len(s) \/ ~IsDigit(CharAt(s, j)) THEN PFail
        ELSE LET d == ParseDigits(s, j, 0)
             IN  IF CharAt(s, j) = "0" /\ d.i > j + 1 THEN PFail
                 ELSE IF neg /\ d.n = 0 THEN POk(NegZero, d.i)
                 ELSE POk(Num(IF neg THEN 0 - d.n ELSE d.n), d.i)

RECURSIVE ParseString(_, _, _)
\* i is the position after the opening quote, acc the characters read so far;
\* the characters up to the next quote, backslash or line feed are taken at once
ParseString(s, i, acc) ==
    LET stops == {k \in i..Len(s) : CharAt(s, k) \in {"\"", "\\", "\n"}}
    IN  IF stops = {} THEN PFail
        ELSE LET k   == CHOOSE m \in stops : \A j \in stops : m <= j
                 c   == CharAt(s, k)
                 run == acc \o SubSeq(s, i, k - 1)
             IN  IF c = "\"" THEN POk(Str(run), k + 1)
                 ELSE IF c = "\n" THEN PFail
                 ELSE IF k + 1 > Len(s) THEN PFail
                 ELSE LET e == CharAt(s, k + 1)
                      IN  IF e = "\"" THEN ParseString(s, k + 2, run \o "\"")
                          ELSE IF e = "\\" THEN ParseString(s, k + 2, run \o "\\")
                          ELSE IF e = "n" THEN ParseString(s, k + 2, run \o "\n")
                          ELSE PFail

RECURSIVE ParseValue(_, _)
RECURSIVE ParseElems(_, _, _)
RECURSIVE ParseMembers(_, _, _)

ParseElems(s, i, acc) ==
    LET r == ParseValue(s, i)
    IN  IF ~r.ok \/ r.i > Len(s) THEN PFail
        ELSE IF CharAt(s, r.i) = "," THEN ParseElems(s, r.i + 1, Append(acc, r.v))
        ELSE IF CharAt(s, r.i) = "]" THEN POk(Arr(Append(acc, r.v)), r.i + 1)
        ELSE PFail

ParseMembers(s, i, obj) ==
    IF i > Len(s) \/ CharAt(s, i) # "\"" THEN PFail
    ELSE LET k == ParseString(s, i + 1, "")
         IN  IF ~k.ok \/ k.i > Len(s) \/ CharAt(s, k.i) # ":" THEN PFail
             ELSE LET r == ParseValue(s, k.i + 1)
                  IN  IF ~r.ok \/ r.i > Len(s) THEN PFail
                      ELSE IF CharAt(s, r.i) = ","
                           THEN ParseMembers(s, r.i + 1, DefineProp(obj, k.v.s, r.v))
                      ELSE IF CharAt(s, r.i) = "}"
                           THEN POk(DefineProp(obj, k.v.s, r.v), r.i + 1)
                      ELSE PFail

ParseValue(s, i) ==
    IF i > Len(s) THEN PFail
    ELSE LET c == CharAt(s, i)
         IN  IF StartsWithAt(s, i, "null") THEN POk(Null, i + 4)
             ELSE IF StartsWithAt(s, i, "true") THEN POk(Bool(TRUE), i + 4)
             ELSE IF StartsWithAt(s, i, "false") THEN POk(Bool(FALSE), i + 5)
             ELSE IF c = "\"" THEN ParseString(s, i + 1, "")
             ELSE IF c = "-" \/ IsDigit(c) THEN ParseNumber(s, i)
             ELSE IF StartsWithAt(s, i, "[]") THEN POk(Arr(<<>>), i + 2)
             ELSE IF c = "[" THEN ParseElems(s, i + 1, <<>>)
             ELSE IF StartsWithAt(s, i, "{}") THEN POk(Obj(<<>>, <<>>), i + 2)
             ELSE IF c = "{" THEN ParseMembers(s, i + 1, Obj(<<>>, <<>>))
             ELSE PFail

JsonParse(s) ==
    LET r == ParseValue(s, 1)
    IN  IF r.ok /\ r.i = Len(s) + 1 THEN r.v ELSE SyntaxError

RECURSIVE DeepEqual(_, _)
\* deep equality of two values: same type, same elements in order, same own
\* keys (in any order) with deep-equal values, identical primitives
DeepEqual(a, b) ==
    IF a.t # b.t THEN FALSE
    ELSE IF a.t = "array"
         THEN Len(a.kids) = Len(b.kids) /\ \A i \in 1..Len(a.kids) : DeepEqual(a.kids[i], b.kids[i])
    ELSE IF a.t = "object"
         THEN /\ {a.keys[i] : i \in 1..Len(a.keys)} = {b.keys[i] : i \in 1..Len(b.keys)}
              /\ \A i \in 1..Len(a.keys) : DeepEqual(a.kids[i], Get(b, a.keys[i]))
    ELSE a = b

(***************************************************************************)
(* Hash bit ring helpers and digests                                       *)
(***************************************************************************)
\* number of hex digits of a digest in the model (the real digest has 64)
DigestHexLen == 4

HexDigits == "0123456789abcdef"

RECURSIVE Pow16(_)
Pow16(k) == IF k = 0 THEN 1 ELSE 16 * Pow16(k - 1)

RECURSIVE HexOf(_, _)
\* n written with `width` lower-case hex digits
HexOf(n, width) ==
    IF width = 0 THEN ""
    ELSE HexOf(n \div 16, width - 1) \o CharAt(HexDigits, (n % 16) + 1)

\* digests are numbers below 16^DigestHexLen
DigestModulus == Pow16(DigestHexLen)

RECURSIVE DigestSum(_, _, _)
\* position-weighted sum of the code units s[lo..hi], halving the range
DigestSum(s, lo, hi) ==
    IF lo > hi THEN 0
    ELSE IF lo = hi THEN CodeUnit(CharAt(s, lo)) * (1 + (lo % 251))
    ELSE LET mid == (lo + hi) \div 2
         IN  (DigestSum(s, lo, mid) + DigestSum(s, mid + 1, hi)) % DigestModulus

\* sha256Hex(s): a digest of the code units of s as lower-case hex
sha256Hex(s) == HexOf((DigestSum(s, 1, Len(s)) + 7 * Len(s)) % DigestModulus, DigestHexLen)

\* String.fromCharCode for the code units of the tables
CharOfCode(n) == IF n = 10 THEN "\n"
                 ELSE IF n <= 95 THEN CharAt(AsciiLo, n - 31)
                 ELSE CharAt(AsciiHi, n - 96)

RECURSIVE ToLowerCase(_)
ToLowerCase(s) ==
    IF s = "" THEN ""
    ELSE LET c == CodeUnit(CharAt(s, 1))
         IN  (IF c >= 65 /\ c <= 90 THEN CharOfCode(c + 32) ELSE CharAt(s, 1))
                 \o ToLowerCase(SubSeq(s, 2, Len(s)))

RECURSIVE Trim(_)
Trim(s) ==
    IF s = "" THEN ""
    ELSE IF CharAt(s, 1) \in {" ", "\n"} THEN Trim(SubSeq(s, 2, Len(s)))
    ELSE IF CharAt(s, Len(s)) \in {" ", "\n"} THEN Trim(SubSeq(s, 1, Len(s) - 1))
    ELSE s

\* value of a hex digit of either case, -1 for any other character
HexVal(c) ==
    LET u == CodeUnit(c)
    IN  IF u >= 48 /\ u <= 57 THEN u - 48
        ELSE IF u >= 97 /\ u <= 102 THEN u - 87
        ELSE IF u >= 65 /\ u <= 70 THEN u - 55
        ELSE 0 - 1

RECURSIVE HexToInt(_, _, _)
HexToInt(s, i, acc) ==
    IF i > Len(s) THEN acc ELSE HexToInt(s, i + 1, acc * 16 + HexVal(CharAt(s, i)))

hexToBigIntDec(hex) ==
    LET stripped == IF Len(hex) >= 2 /\ SubSeq(hex, 1, 2) \in {"0x", "0X"}
                    THEN SubSeq(hex, 3, Len(hex)) ELSE hex
        clean    == Trim(stripped)
    IN  IF clean = "" \/ \E i \in 1..Len(clean) : HexVal(CharAt(clean, i)) < 0 THEN "0"
        ELSE DigitsOf(HexToInt(clean, 1, 0))

(***************************************************************************)
(* ZK extraction                                                           *)
(***************************************************************************)
isStringArray(v) == v.t = "array" /\ \A i \in 1..Len(v.kids) : v.kids[i].t = "string"

isStringArray2(v) ==
    /\ v.t = "array"
    /\ \A i \in 1..Len(v.kids) :
          /\ v.kids[i].t = "array"
          /\ \A j \in 1..Len(v.kids[i].kids) : v.kids[i].kids[j].t = "string"

\* the Groth16Proof object literal { pi_a, pi_b, pi_c }
Groth16Proof(a, b, c) == Obj(<<"pi_a", "pi_b", "pi_c">>, <<a, b, c>>)

\* Boolean(v)
Truthy(v) ==
    CASE v.t \in {"undefined", "null"} -> FALSE
      [] v.t = "boolean" -> v.n = 1
      [] v.t = "number"  -> v.s \in {"", "Infinity", "-Infinity"} /\ (v.s = "" => v.n # 0)
      [] v.t = "bigint"  -> v.n # 0
      [] v.t = "string"  -> v.s # ""
      [] OTHER           -> TRUE

\* a normaliser that knows the snarkjs naming only
RECURSIVE NormalizeSnarkjsOnlyAt(_, _, _)
NormalizeSnarkjsOnlyAt(v, anc, depth) ==
    IF depth > MaxCallStack THEN RangeError
    ELSE IF v.t = "ref"
         THEN NormalizeSnarkjsOnlyAt(anc[Len(anc) + 1 - v.n], SubSeq(anc, 1, Len(anc) - v.n), depth)
    ELSE IF ~isRecord(v) THEN Undefined
    ELSE IF isStringArray(Get(v, "pi_a")) /\ isStringArray2(Get(v, "pi_b")) /\ isStringArray(Get(v, "pi_c"))
         THEN Groth16Proof(Get(v, "pi_a"), Get(v, "pi_b"), Get(v, "pi_c"))
    ELSE IF isRecord(Get(v, "proof")) \/ Get(v, "proof").t = "ref"
         THEN NormalizeSnarkjsOnlyAt(Get(v, "proof"), Append(anc, v), depth + 1)
    ELSE Undefined

RECURSIVE NormalizeAt(_, _, _)
\* one activation of normalizeGroth16Proof at call depth `depth`; anc are the
\* wrappers enclosing v, outermost first
NormalizeAt(v, anc, depth) ==
    IF depth > MaxCallStack THEN RangeError
    ELSE IF v.t = "ref"
         THEN NormalizeAt(anc[Len(anc) + 1 - v.n], SubSeq(anc, 1, Len(anc) - v.n), depth)
    ELSE IF ~isRecord(v) THEN Undefined
    ELSE IF isStringArray(Get(v, "pi_a")) /\ isStringArray2(Get(v, "pi_b")) /\ isStringArray(Get(v, "pi_c"))
         THEN Groth16Proof(Get(v, "pi_a"), Get(v, "pi_b"), Get(v, "pi_c"))
    ELSE IF isStringArray(Get(v, "a")) /\ isStringArray2(Get(v, "b")) /\ isStringArray(Get(v, "c"))
         THEN Groth16Proof(Get(v, "a"), Get(v, "b"), Get(v, "c"))
    ELSE IF isRecord(Get(v, "proof")) \/ Get(v, "proof").t = "ref"
         THEN NormalizeAt(Get(v, "proof"), Append(anc, v), depth + 1)
    ELSE Undefined

normalizeGroth16Proof(v) == NormalizeAt(v, <<>>, 1)

\* Boolean(v) in place of the four accepted spellings
truthyBoolAnyTruthy(v) == Truthy(v)

truthyBool(v) == v = Bool(TRUE) \/ v = Str("true") \/ v = Num(1) \/ v = Str("1")

ZkFields == {"canonicalHashHex", "zkPoseidonHashDec", "zkProof", "zkPublicInputs",
             "proofHints", "verifiedFlag", "verifiedBy"}

\* the empty extract {}
NoExtract == [f \in ZkFields |-> Undefined]

\* the proof candidates of a source, in the order they are tried
ProofCandidates(src) ==
    LET pb  == Get(src, "proofBundle")
        zkv == Get(src, "zk")
    IN  << Get(src, "zkProof"), Get(src, "proof"), Get(src, "groth16Proof"), pb,
           IF isRecord(pb) THEN Get(pb, "proof") ELSE Undefined,
           IF isRecord(zkv) THEN Get(zkv, "proof") ELSE Undefined,
           IF isRecord(zkv) THEN Get(zkv, "zkProof") ELSE Undefined,
           IF isRecord(zkv) THEN Get(zkv, "groth16Proof") ELSE Undefined >>

RECURSIVE FirstProof(_)
\* for (const c of candidates) { const p = normalizeGroth16Proof(c); if (p) ... break }
FirstProof(cands) ==
    IF cands = <<>> THEN Undefined
    ELSE LET p == normalizeGroth16Proof(Head(cands))
         IN  IF p # Undefined THEN p ELSE FirstProof(Tail(cands))

extractZkFromUnknown(src) ==
    IF ~isRecord(src) THEN NoExtract
    ELSE LET zkv == Get(src, "zk")
         IN  [ canonicalHashHex |->
                   IF Get(src, "canonicalHashHex").t = "string" THEN Get(src, "canonicalHashHex")
                   ELSE IF Get(src, "canonicalHash").t = "string" THEN Get(src, "canonicalHash")
                   ELSE Undefined,
               zkPoseidonHashDec |->
                   IF Get(src, "zkPoseidonHashDec").t = "string" THEN Get(src, "zkPoseidonHashDec")
                   ELSE IF Get(src, "zkPoseidonHash").t = "string" THEN Get(src, "zkPoseidonHash")
                   ELSE IF Get(src, "zkPoseidonHash").t = "number"
                        THEN Str(NumberToString(Get(src, "zkPoseidonHash")))
                   ELSE IF Get(src, "zkPoseidonHashDec").t = "number"
                        THEN Str(NumberToString(Get(src, "zkPoseidonHashDec")))
                   ELSE IF Get(src, "zkPoseidon").t = "string" THEN Get(src, "zkPoseidon")
                   ELSE Undefined,
               proofHints |->
                   IF isRecord(Get(src, "proofHints")) THEN Get(src, "proofHints") ELSE Undefined,
               zkPublicInputs |->
                   IF isStringArray(Get(src, "zkPublicInputs")) THEN Get(src, "zkPublicInputs")
                   ELSE IF isStringArray(Get(src, "publicInputs")) THEN Get(src, "publicInputs")
                   ELSE IF isStringArray(Get(src, "inputs")) THEN Get(src, "inputs")
                   ELSE Undefined,
               zkProof |-> FirstProof(ProofCandidates(src)),
               verifiedFlag |->
                   Bool(\/ truthyBool(Get(src, "zkOk"))
                        \/ truthyBool(Get(src, "zkVerified"))
                        \/ truthyBool(Get(src, "verified"))
                        \/ (isRecord(zkv) /\ (truthyBool(Get(zkv, "ok")) \/ truthyBool(Get(zkv, "verified"))))),
               verifiedBy |->
                   IF Get(src, "verifiedBy").t = "string" THEN Get(src, "verifiedBy")
                   ELSE IF Get(src, "zkVerifier").t = "string" THEN Get(src, "zkVerifier")
                   ELSE IF isRecord(zkv) /\ Get(zkv, "verifier").t = "string" THEN Get(zkv, "verifier")
                   ELSE Undefined ]

RECURSIVE pickLast(_, _)
\* last-defined-wins
pickLast(xs, f) ==
    IF xs = <<>> THEN Undefined
    ELSE IF xs[Len(xs)][f] # Undefined THEN xs[Len(xs)][f]
    ELSE pickLast(SubSeq(xs, 1, Len(xs) - 1), f)

\* a pick that looks at the first source only
pickHeadOnly(xs, f) == IF xs = <<>> THEN Undefined ELSE Head(xs)[f]

RECURSIVE pickFirst(_, _)
pickFirst(xs, f) ==
    IF xs = <<>> THEN Undefined
    ELSE IF Head(xs)[f] # Undefined THEN Head(xs)[f]
    ELSE pickFirst(Tail(xs), f)

mergePrefer(xs) ==
    [ canonicalHashHex  |-> pickFirst(xs, "canonicalHashHex"),
      zkPoseidonHashDec |-> pickFirst(xs, "zkPoseidonHashDec"),
      zkProof           |-> pickFirst(xs, "zkProof"),
      zkPublicInputs    |-> pickFirst(xs, "zkPublicInputs"),
      proofHints        |-> pickFirst(xs, "proofHints"),
      verifiedFlag      |-> Bool(\E i \in 1..Len(xs) : Truthy(xs[i].verifiedFlag)),
      verifiedBy        |-> pickFirst(xs, "verifiedBy") ]

(***************************************************************************)
(* buildZkSeal                                                             *)
(***************************************************************************)
CoreKeys == << "v", "kind", "userPhiKey", "kaiSignature", "marketId", "positionId", "side",
               "lockedStakeMicro", "sharesMicro", "avgPriceMicro", "worstPriceMicro", "feeMicro",
               "totalCostMicro", "vaultId", "lockId", "openedAt", "venue", "marketDefinitionHash",
               "resolution", "label", "note" >>

\* the fields read as payload.f ?? null
NullishKeys == {"venue", "marketDefinitionHash", "resolution", "label", "note"}

\* a canonical object that takes every field of the payload
CanonObjOfWholePayload(pl) == pl

\* the object literal handed to toJsonValue
CanonObjOf(pl) ==
    Obj(CoreKeys,
        Tuple([i \in 1..Len(CoreKeys) |->
            LET f == Get(pl, CoreKeys[i])
            IN  IF CoreKeys[i] \in NullishKeys /\ f.t \in {"undefined", "null"} THEN Null ELSE f]))

\* new TextEncoder().encode(s).byteLength: one byte per code unit below 128,
\* two for the others (no code unit of the model is above 126)
Utf8ByteLength(s) == Len(s) + Cardinality({i \in 1..Len(s) : CodeUnit(CharAt(s, i)) >= 128})

\* a tier rule that looks at the flag before the proof
zkAssuranceFlagFirst(proofPresent, byFlag, byMatch) ==
    IF byFlag THEN "verified-flag"
    ELSE IF proofPresent THEN "proof-present"
    ELSE IF byMatch THEN "seal-match"
    ELSE "none"

zkAssuranceOf(proofPresent, byFlag, byMatch) ==
    IF proofPresent THEN "proof-present"
    ELSE IF byFlag THEN "verified-flag"
    ELSE IF byMatch THEN "seal-match"
    ELSE "none"

\* a verdict that forgets the seal match
zkOkNoMatch(proofPresent, byFlag, byMatch) == proofPresent \/ byFlag

zkOkOf(proofPresent, byFlag, byMatch) == proofPresent \/ byFlag \/ byMatch

DefaultProofHints ==
    Obj(<<"scheme", "verify">>,
        << Str("groth16-poseidon"),
           Obj(<<"mode", "statement", "publicInput">>,
               <<Str("offline-or-api"), Str("canonicalHashHex"), Str("zkPoseidonHashDec")>>) >>)

\* the seal returned by buildZkSeal(pl, vlt, ps), with the locals the
\* properties speak about (the four extracts and their merge)
buildZkSeal(pl, vlt, ps) ==
    LET canonS    == stableStringify(toJsonValue(CanonObjOf(pl)))
        derivedCanonicalHashHex == sha256Hex("SM:POS:CANON:" \o canonS)
        owner     == IF Truthy(vlt) THEN Get(vlt, "owner") ELSE Undefined
        payloadZk == extractZkFromUnknown(pl)
        entryZk   == IF Truthy(ps) THEN extractZkFromUnknown(Get(ps, "entry")) ELSE NoExtract
        posZk     == IF Truthy(ps) THEN extractZkFromUnknown(ps) ELSE NoExtract
        ownerZk   == extractZkFromUnknown(owner)
        xs        == <<payloadZk, entryZk, posZk, ownerZk>>
        merged    == mergePrefer(xs)
        canonicalHashHex ==
            ToLowerCase(IF merged.canonicalHashHex = Undefined
                        THEN derivedCanonicalHashHex ELSE merged.canonicalHashHex.s)
        derivedPoseidonDec == hexToBigIntDec(sha256Hex("SM:POS:POSEIDON:" \o canonicalHashHex))
        zkPoseidonHashDec ==
            IF merged.zkPoseidonHashDec = Undefined
            THEN derivedPoseidonDec ELSE merged.zkPoseidonHashDec.s
        vaultCanonicalOk ==
            IF ownerZk.canonicalHashHex.t = "string"
            THEN Bool(ToLowerCase(ownerZk.canonicalHashHex.s) = canonicalHashHex) ELSE Undefined
        vaultPoseidonOk ==
            IF ownerZk.zkPoseidonHashDec.t = "string"
            THEN Bool(ownerZk.zkPoseidonHashDec.s = zkPoseidonHashDec) ELSE Undefined
        proofPresent ==
            Truthy(merged.zkProof)
                \/ (Truthy(merged.zkPublicInputs) /\ Len(merged.zkPublicInputs.kids) > 0)
        byFlag  == Truthy(merged.verifiedFlag)
        byMatch == Truthy(vaultCanonicalOk) /\ Truthy(vaultPoseidonOk)
    IN  [ zk   |-> [xs |-> xs, merged |-> merged],
          seal |-> [ scheme            |-> "groth16-poseidon",
                     canonicalHashAlg  |-> "sha256",
                     canonicalHashHex  |-> canonicalHashHex,
                     canonicalBytesLen |-> Utf8ByteLength(canonS),
                     zkPoseidonHashDec |-> zkPoseidonHashDec,
                     zkOk              |-> zkOkOf(proofPresent, byFlag, byMatch),
                     zkAssurance       |-> zkAssuranceOf(proofPresent, byFlag, byMatch),
                     zkProof           |-> merged.zkProof,
                     zkPublicInputs    |-> merged.zkPublicInputs,
                     proofHints        |-> IF merged.proofHints = Undefined
                                           THEN DefaultProofHints ELSE merged.proofHints,
                     verifiedBy        |-> merged.verifiedBy,
                     matches           |-> [vaultCanonical |-> vaultCanonicalOk,
                                            vaultPoseidon  |-> vaultPoseidonOk] ] ]

\* the value of `seal` before buildZkSeal has returned
NoSeal == [ scheme |-> "", canonicalHashAlg |-> "", canonicalHashHex |-> "", canonicalBytesLen |-> 0,
            zkPoseidonHashDec |-> "", zkOk |-> FALSE, zkAssurance |-> "", zkProof |-> Undefined,
            zkPublicInputs |-> Undefined, proofHints |-> Undefined, verifiedBy |-> Undefined,
            matches |-> [vaultCanonical |-> Undefined, vaultPoseidon |-> Undefined] ]

NoZk == [xs |-> <<>>, merged |-> NoExtract]

(***************************************************************************)
(* SpecCanon: canonicalize a value, read the canonical string back, hand   *)
(* in the same logical value with another key insertion order.             *)
(***************************************************************************)
KeyPool == {"a", "b", "__proto__"}

Prims == {Null, Bool(TRUE), Bool(FALSE), Num(0 - 7), Num(120), NegZero, NonFinite("NaN"),
          Str("q\"\\"), Str("1500000"), Str("\n"), Undefined, BigInt(5)}

KeySeqs == {ks \in UNION {[1..n -> KeyPool] : n \in 0..MaxWidth} :
               \A i, j \in 1..Len(ks) : i # j => ks[i] # ks[j]}

ObjectsOver(vals) == UNION {{Obj(ks, vs) : vs \in [1..Len(ks) -> vals]} : ks \in KeySeqs}
ArraysOver(vals)  == UNION {{Arr(vs) : vs \in [1..n -> vals]} : n \in 0..MaxWidth}

\* containers nested one level down; Ref(2) points at the top-level container
Nested == {Obj(<<"b", "a">>, <<Num(120), Str("1500000")>>),
           Obj(<<"a", "b">>, <<Null, Arr(<<Bool(TRUE)>>)>>),
           Arr(<<Num(0 - 7), Null>>),
           Obj(<<"a">>, <<Ref(2)>>),
           Arr(<<Ref(1)>>)}

CanonInputs ==
    Prims \cup ObjectsOver(Prims \cup {Ref(1)}) \cup ArraysOver(Prims \cup {Ref(1)})
          \cup ObjectsOver(Nested \cup {Null, Str("q\"\\")})

RECURSIVE HasRef(_)
\* the object graph written by v contains a cycle
HasRef(v) == v.t = "ref" \/ \E i \in 1..Len(v.kids) : HasRef(v.kids[i])

SwapAt(seq, i) == Tuple([k \in 1..Len(seq) |-> IF k = i THEN seq[i + 1] ELSE IF k = i + 1 THEN seq[i] ELSE seq[k]])

RECURSIVE KeySwaps(_)
\* the values that differ from v by the insertion order of two neighbouring
\* keys of one object in v
KeySwaps(v) ==
    (IF v.t = "object"
     THEN {Obj(SwapAt(v.keys, i), SwapAt(v.kids, i)) : i \in 1..(Len(v.keys) - 1)}
     ELSE {})
    \cup UNION {{[v EXCEPT !.kids[i] = w] : w \in KeySwaps(v.kids[i])} : i \in 1..Len(v.kids)}

CanonIdle == x = Undefined /\ cpc = "idle" /\ canonStr = "" /\ prevStr = "" /\ parsed = Undefined
SealIdle  == /\ payload = Undefined /\ pos = Undefined /\ vault = Null /\ zk = NoZk
             /\ seal = NoSeal /\ okWord = "" /\ spc = "idle"
ProofIdle == cand = Undefined /\ proof = Undefined /\ ppc = "idle"

\* no mint has been asked for
MintIdle == gUsd = Undefined /\ mint = <<>> /\ ctl = <<>> /\ store = <<>>

\* no container has been written
EmbedIdle == epay = Undefined /\ ekind = "" /\ etext = "" /\ eread = Undefined /\ epc = "idle"

\* no helper has been called
HelpIdle == harg = <<>> /\ hres = <<>> /\ hpc = "idle"

\* no control is mounted
ControlIdle == busy = <<>> /\ shown = <<>> /\ runs = <<>> /\ attached = <<>>

\* exportSigil has not been called
ExportIdle == xopts = Undefined /\ xpc = "idle" /\ xtext = Null /\ downloads = <<>> /\ xres = Undefined

\* the gate is not open
GateIdle == picks = <<>> /\ gate = Undefined /\ vaults = <<>>

\* no generator has been built
RngIdle ==
    /\ rngSeed = <<>>
    /\ rngKind = <<>>
    /\ rngX = <<>>
    /\ rngOut = <<>>

InitCanon ==
    /\ x \in CanonInputs
    /\ cpc = "input"
    /\ canonStr = ""
    /\ prevStr = ""
    /\ parsed = Undefined
    /\ SealIdle
    /\ ProofIdle
    /\ RngIdle
    /\ EmbedIdle
    /\ MintIdle
    /\ HelpIdle
    /\ ControlIdle
    /\ ExportIdle
    /\ GateIdle

\* canonStr = stableStringify(toJsonValue(x)); a RangeError raised by
\* toJsonValue leaves the caller without a canonical string
Canonicalize ==
    /\ cpc = "input"
    /\ \E j \in {toJsonValue(x)} :
          IF j.t = "RangeError"
          THEN cpc' = "threw" /\ canonStr' = canonStr
          ELSE cpc' = "canon" /\ canonStr' = stableStringify(j)
    /\ UNCHANGED <<x, prevStr, parsed>>
    /\ UNCHANGED sealVars
    /\ UNCHANGED proofVars
    /\ UNCHANGED rngVars
    /\ UNCHANGED embedVars
    /\ UNCHANGED mintVars
    /\ UNCHANGED helpVars
    /\ UNCHANGED ctrlVars
    /\ UNCHANGED exportVars
    /\ UNCHANGED gateVars

\* JSON.parse of the canonical string
ParseBack ==
    /\ cpc = "canon"
    /\ parsed' = JsonParse(canonStr)
    /\ cpc' = "parsed"
    /\ UNCHANGED <<x, canonStr, prevStr>>
    /\ UNCHANGED sealVars
    /\ UNCHANGED proofVars
    /\ UNCHANGED rngVars
    /\ UNCHANGED embedVars
    /\ UNCHANGED mintVars
    /\ UNCHANGED helpVars
    /\ UNCHANGED ctrlVars
    /\ UNCHANGED exportVars
    /\ UNCHANGED gateVars

\* the caller builds the same logical value with another key insertion order
ReorderKeys ==
    /\ cpc \in {"canon", "parsed"}
    /\ \E y \in KeySwaps(x) : x' = y
    /\ prevStr' = canonStr
    /\ cpc' = "input"
    /\ UNCHANGED <<canonStr, parsed>>
    /\ UNCHANGED sealVars
    /\ UNCHANGED proofVars
    /\ UNCHANGED rngVars
    /\ UNCHANGED embedVars
    /\ UNCHANGED mintVars
    /\ UNCHANGED helpVars
    /\ UNCHANGED ctrlVars
    /\ UNCHANGED exportVars
    /\ UNCHANGED gateVars

NextCanon == Canonicalize \/ ParseBack \/ ReorderKeys

SpecCanon == InitCanon /\ [][NextCanon]_vars

(***************************************************************************)
(* SpecSeal: buildSvg seals a payload against a vault and a position       *)
(* record and labels the sigil.                                            *)
(***************************************************************************)
\* obj with the properties of extra added after its own
WithFields(obj, extra) == Obj(obj.keys \o extra.keys, obj.kids \o extra.kids)

\* the payload of scenario A and a payload as makePayload lays it out
CoreA == Obj(<<"marketId", "side", "lockedStakeMicro">>, <<Str("m1"), Str("YES"), Str("1500000")>>)
CoreB == Obj(<< "v", "kind", "userPhiKey", "kaiSignature", "marketId", "positionId", "side",
                "lockedStakeMicro", "sharesMicro", "avgPriceMicro", "worstPriceMicro", "feeMicro",
                "totalCostMicro", "vaultId", "lockId", "openedAt", "venue", "marketDefinitionHash",
                "resolution", "label", "note" >>,
             << Str("SM-POS-1"), Str("position"), Str("phi1"), Str("sig1"), Str("m1"), Str("p1"),
                Str("NO"), Str("1500000"), Str("3000000"), Str("500000"), Str("510000"), Str("0"),
                Str("1500000"), Str("v1"), Str("l1"),
                Obj(<<"pulse", "beat", "stepIndex">>, <<Num(42), Num(3), Num(7)>>),
                Str("amm"), Str("ab"), Undefined, Str("Position NO"), Undefined >>)
PayloadCores == {CoreA, CoreB}

ProofSnarkjs == Obj(<<"pi_a", "pi_b", "pi_c">>,
                    << Arr(<<Str("1"), Str("2")>>),
                       Arr(<<Arr(<<Str("3"), Str("4")>>), Arr(<<Str("5"), Str("6")>>)>>),
                       Arr(<<Str("7"), Str("8")>>) >>)
ProofAlt     == Obj(<<"a", "b", "c">>,
                    << Arr(<<Str("11"), Str("12"), Str("1")>>),
                       Arr(<<Arr(<<Str("13"), Str("14")>>), Arr(<<Str("15"), Str("16")>>), Arr(<<Str("1"), Str("0")>>)>>),
                       Arr(<<Str("17"), Str("18"), Str("1")>>) >>)
ProofAltPairs == Obj(<<"a", "b", "c">>,
                     << Arr(<<Str("21"), Str("22")>>),
                        Arr(<<Arr(<<Str("23"), Str("24")>>), Arr(<<Str("25"), Str("26")>>)>>),
                        Arr(<<Str("27"), Str("28")>>) >>)
ProofNumbers == Obj(<<"pi_a", "pi_b", "pi_c">>,
                    << Arr(<<Num(1), Num(2)>>), Arr(<<Arr(<<Num(3), Num(4)>>)>>), Arr(<<Num(7), Num(8)>>) >>)

PartEmpty      == Obj(<<>>, <<>>)
PartZkOk       == Obj(<<"zkOk">>, <<Bool(TRUE)>>)
PartVerified1  == Obj(<<"verified">>, <<Str("1")>>)
PartNotTruthy  == Obj(<<"zkVerified", "zkOk">>, <<Str("yes"), Bool(FALSE)>>)
PartZkFlag     == Obj(<<"zk">>, <<Obj(<<"verified">>, <<Str("true")>>)>>)
PartProof      == Obj(<<"zkProof">>, <<ProofSnarkjs>>)
PartZkProof    == Obj(<<"zk">>, <<Obj(<<"proof", "ok", "verifier">>, <<ProofAlt, Num(1), Str("v2")>>)>>)
PartBundle     == Obj(<<"proofBundle", "zkVerifier", "inputs">>,
                      <<Obj(<<"proof">>, <<ProofSnarkjs>>), Str("v3"), Arr(<<Str("9")>>)>>)
PartGroth      == Obj(<<"groth16Proof", "verified">>, <<ProofAltPairs, Bool(FALSE)>>)
PartBadProof   == Obj(<<"proof", "proofHints">>, <<ProofNumbers, Obj(<<"k">>, <<Num(1)>>)>>)
PartHashes     == Obj(<<"canonicalHashHex", "zkPoseidonHashDec">>, <<Str("AB12"), Str("77")>>)
PartHashesAlt  == Obj(<<"canonicalHash", "zkPoseidonHash">>, <<Str("cd34"), Num(88)>>)
PartNoInputs   == Obj(<<"zkPublicInputs">>, <<Arr(<<>>)>>)
PartInputs     == Obj(<<"publicInputs", "verifiedBy">>, <<Arr(<<Str("7")>>), Str("kai")>>)

\* the canonical hash and the public input the artifact derives for itself
\* when no source supplies one
DerivedHashOf(core) == sha256Hex("SM:POS:CANON:" \o stableStringify(toJsonValue(CanonObjOf(core))))
DerivedPoseidonOf(core) == hexToBigIntDec(sha256Hex("SM:POS:POSEIDON:" \o DerivedHashOf(core)))

\* owner records that carry the values derived from the payload
PartMatch(core)     == Obj(<<"canonicalHashHex", "zkPoseidonHashDec">>,
                           <<Str(DerivedHashOf(core)), Str(DerivedPoseidonOf(core))>>)
PartHalfMatch(core) == Obj(<<"canonicalHashHex", "zkPoseidonHashDec">>,
                           <<Str(DerivedHashOf(core)), Str("77")>>)

PayloadParts == {PartEmpty, PartZkOk, PartNotTruthy, PartProof, PartHashes, PartHashesAlt,
                 PartNoInputs, PartInputs}
EntryParts   == {PartEmpty, PartVerified1, PartZkProof, PartGroth, PartBadProof, PartInputs}
PosParts     == {PartEmpty, PartBundle, PartZkFlag, PartNoInputs, PartHashes}
OwnerParts(core) == {PartEmpty, PartZkOk, PartProof, PartHashes, PartHashesAlt, PartInputs,
                     PartMatch(core), PartHalfMatch(core), Str("owner"), Undefined}

InitSeal ==
    /\ \E core \in PayloadCores :
          /\ \E e \in PayloadParts : payload = WithFields(core, e)
          /\ \/ vault = Null
             \/ \E o \in OwnerParts(core) : vault = Obj(<<"owner">>, <<o>>)
    /\ \/ pos = Undefined
       \/ \E pp \in PosParts, ep \in EntryParts : pos = WithFields(pp, Obj(<<"entry">>, <<ep>>))
    /\ zk = NoZk
    /\ seal = NoSeal
    /\ okWord = ""
    /\ spc = "input"
    /\ CanonIdle
    /\ ProofIdle
    /\ RngIdle
    /\ EmbedIdle
    /\ MintIdle
    /\ HelpIdle
    /\ ControlIdle
    /\ ExportIdle
    /\ GateIdle

\* const seal = await buildZkSeal(payload, vault, pos); an exception raised
\* while a source is probed rejects the promise
BuildZkSeal ==
    /\ spc = "input"
    /\ \E r \in {buildZkSeal(payload, vault, pos)} :
          IF \E i \in 1..Len(r.zk.xs) : r.zk.xs[i].zkProof = RangeError
          THEN spc' = "threw" /\ UNCHANGED <<zk, seal>>
          ELSE spc' = "sealed" /\ zk' = r.zk /\ seal' = r.seal
    /\ UNCHANGED <<payload, pos, vault, okWord>>
    /\ UNCHANGED canonVars
    /\ UNCHANGED proofVars
    /\ UNCHANGED rngVars
    /\ UNCHANGED embedVars
    /\ UNCHANGED mintVars
    /\ UNCHANGED helpVars
    /\ UNCHANGED ctrlVars
    /\ UNCHANGED exportVars
    /\ UNCHANGED gateVars

\* buildSvg after the seal has arrived: const okWord = seal.zkOk ? "VERIFIED" : "SEALED"
BuildSvgLabel ==
    /\ spc = "sealed"
    /\ okWord' = IF seal.zkOk THEN "VERIFIED" ELSE "SEALED"
    /\ spc' = "labelled"
    /\ UNCHANGED <<payload, pos, vault, zk, seal>>
    /\ UNCHANGED canonVars
    /\ UNCHANGED proofVars
    /\ UNCHANGED rngVars
    /\ UNCHANGED embedVars
    /\ UNCHANGED mintVars
    /\ UNCHANGED helpVars
    /\ UNCHANGED ctrlVars
    /\ UNCHANGED exportVars
    /\ UNCHANGED gateVars

NextSeal == BuildZkSeal \/ BuildSvgLabel

SpecSeal == InitSeal /\ [][NextSeal]_vars

(***************************************************************************)
(* SpecProof: extractZkFromUnknown hands one proof candidate to            *)
(* normalizeGroth16Proof.                                                  *)
(***************************************************************************)
GroupsA == {Arr(<<Str("1"), Str("2")>>), Arr(<<Str("1"), Str("2"), Str("1")>>), Arr(<<>>),
            Arr(<<Num(1), Num(2)>>), Str("12"), Undefined}
GroupsB == {Arr(<<Arr(<<Str("3"), Str("4")>>), Arr(<<Str("5"), Str("6")>>)>>),
            Arr(<<Arr(<<Str("3"), Str("4")>>), Arr(<<Str("5"), Str("6")>>), Arr(<<Str("1"), Str("0")>>)>>),
            Arr(<<>>), Arr(<<Str("3"), Str("4")>>),
            Arr(<<Arr(<<Str("3")>>), Arr(<<Num(4), Str("5")>>)>>), Undefined}
GroupsC == {Arr(<<Str("7"), Str("8")>>), Arr(<<Str("7")>>), Null}

Namings == {<<"pi_a", "pi_b", "pi_c">>, <<"a", "b", "c">>}

RECURSIVE Wrap(_, _)
\* v under k wrappers { proof: ... }
Wrap(v, k) == IF k = 0 THEN v ELSE Obj(<<"proof">>, <<Wrap(v, k - 1)>>)

\* candidates that are no plain three-group object: both namings at once, a
\* broken group next to a wrapped proof, values that are no records, and
\* wrappers that refer back to themselves
OddCandidates ==
    { Obj(<<"pi_a", "pi_b", "pi_c", "a", "b", "c">>,
          ProofNumbers.kids \o ProofAltPairs.kids),
      Obj(<<"a", "b", "c", "pi_a", "pi_b", "pi_c">>,
          ProofAlt.kids \o ProofSnarkjs.kids),
      Obj(<<"a", "b", "c", "proof">>, ProofNumbers.kids \o <<ProofSnarkjs>>),
      Obj(<<"pi_a", "proof">>, <<Arr(<<Str("1"), Str("2")>>), Str("p")>>),
      Obj(<<"proof">>, <<Arr(<<ProofSnarkjs>>)>>),
      Str("proof"), Null, Undefined, Num(1), Bool(TRUE), Arr(<<>>), Arr(<<ProofSnarkjs>>),
      Obj(<<>>, <<>>),
      Obj(<<"proof">>, <<Ref(1)>>),
      Obj(<<"proof">>, <<Obj(<<"proof">>, <<Ref(2)>>)>>),
      Obj(<<"pi_a", "pi_b", "pi_c", "proof">>, ProofSnarkjs.kids \o <<Ref(1)>>) }

ProofInputs ==
    {Wrap(Obj(n, <<a, b, c>>), k) : n \in Namings, a \in GroupsA, b \in GroupsB, c \in GroupsC,
                                   k \in 0..MaxWrap}
    \cup OddCandidates

InitProof ==
    /\ cand \in ProofInputs
    /\ proof = Undefined
    /\ ppc = "input"
    /\ CanonIdle
    /\ SealIdle
    /\ RngIdle
    /\ EmbedIdle
    /\ MintIdle
    /\ HelpIdle
    /\ ControlIdle
    /\ ExportIdle
    /\ GateIdle

\* const p = normalizeGroth16Proof(c); an exception leaves p unassigned
Normalize ==
    /\ ppc = "input"
    /\ \E r \in {normalizeGroth16Proof(cand)} :
          IF r = RangeError
          THEN ppc' = "threw" /\ proof' = proof
          ELSE ppc' = "done" /\ proof' = r
    /\ UNCHANGED cand
    /\ UNCHANGED canonVars
    /\ UNCHANGED sealVars
    /\ UNCHANGED rngVars
    /\ UNCHANGED embedVars
    /\ UNCHANGED mintVars
    /\ UNCHANGED helpVars
    /\ UNCHANGED ctrlVars
    /\ UNCHANGED exportVars
    /\ UNCHANGED gateVars

NextProof == Normalize

SpecProof == InitProof /\ [][NextProof]_vars

(***************************************************************************)
(* Properties of the canonicalizer (checked under SpecCanon).              *)
(***************************************************************************)
RECURSIVE IsStructured(_)
\* null, strings, booleans, numbers, arrays and string-keyed objects of these
IsStructured(v) ==
    /\ v.t \in {"null", "string", "boolean", "number", "array", "object"}
    /\ \A i \in 1..Len(v.kids) : IsStructured(v.kids[i])

RECURSIVE IsJsonExact(_)
\* a structured value whose numbers are finite and not negative zero and
\* whose objects have no own key "__proto__"
IsJsonExact(v) ==
    /\ v.t \in {"null", "string", "boolean", "number", "array", "object"}
    /\ v.t = "number" => v.s = ""
    /\ \A i \in 1..Len(v.keys) : v.keys[i] # "__proto__"
    /\ \A i \in 1..Len(v.kids) : IsJsonExact(v.kids[i])

\* C1: for a non-cyclic value, the canonical string computed after the key
\* insertion order of any of its objects was permuted equals the canonical
\* string computed before.
C1_KeyOrderInvariant ==
    (cpc \in {"canon", "parsed"} /\ prevStr # "" /\ ~HasRef(x)) => canonStr = prevStr

\* a canonical string was recomputed for an object whose keys now stand in
\* descending insertion order
C1_Witness ==
    /\ cpc = "canon" /\ prevStr # "" /\ x.t = "object"
    /\ Len(x.keys) >= 2 /\ StrLess(x.keys[2], x.keys[1])

\* C2 (as stated): parsing the canonical string of any structured value
\* (numbers of every kind included) gives back a deep-equal value.
C2_RoundTripAnyNumber ==
    (cpc = "parsed" /\ IsStructured(x)) => DeepEqual(parsed, x)

\* C2 (amended): parsing the canonical string of a structured value whose
\* numbers are finite and not negative zero and whose objects have no own key
\* "__proto__" gives back a deep-equal value.
C2_RoundTrip ==
    (cpc = "parsed" /\ IsJsonExact(x)) => DeepEqual(parsed, x)

\* a nested object carrying a large decimal string and a string that needs
\* escaping was read back
C2_Witness ==
    /\ cpc = "parsed" /\ IsJsonExact(x) /\ x.t = "object"
    /\ \E i \in 1..Len(x.kids) :
          x.kids[i].t = "object" /\ Get(x.kids[i], "a") = Str("1500000")
    /\ \E i \in 1..Len(x.kids) : x.kids[i] = Str("q\"\\")

\* C3: toJsonValue returns a value on every input, an object graph with a
\* cycle included; it never throws.
C3_NeverThrows == cpc # "threw"

(***************************************************************************)
(* Properties of the seal (checked under SpecSeal).                        *)
(***************************************************************************)
\* buildZkSeal has returned a seal
Sealed == spc \in {"sealed", "labelled"}

\* the four records the seal is built from, in the order they are probed:
\* payload, position entry, position record, vault owner
Sources ==
    << payload,
       IF Truthy(pos) THEN Get(pos, "entry") ELSE Undefined,
       IF Truthy(pos) THEN pos ELSE Undefined,
       IF Truthy(vault) THEN Get(vault, "owner") ELSE Undefined >>

FlagValues == {Bool(TRUE), Str("true"), Num(1), Str("1")}

\* src carries a verified flag in one of the four accepted spellings
CarriesFlag(src) ==
    /\ isRecord(src)
    /\ \/ \E k \in {"zkOk", "zkVerified", "verified"} : Get(src, k) \in FlagValues
       \/ \E k \in {"ok", "verified"} : Get(Get(src, "zk"), k) \in FlagValues

IsPair(v) == isStringArray(v) /\ Len(v.kids) = 2
IsPairOfPairs(v) == v.t = "array" /\ Len(v.kids) = 2 /\ \A i \in 1..2 : IsPair(v.kids[i])

\* v has the ProofBundle shape under one naming: A a pair, B a pair of
\* pairs, C a pair
IsBundle(v) ==
    \E n \in {<<"pi_a", "pi_b", "pi_c">>, <<"a", "b", "c">>} :
        IsPair(Get(v, n[1])) /\ IsPairOfPairs(Get(v, n[2])) /\ IsPair(Get(v, n[3]))

RECURSIVE Unwrap(_, _)
\* what stands under k "proof" wrappers of v
Unwrap(v, k) == IF k = 0 THEN v ELSE Unwrap(Get(v, "proof"), k - 1)

HoldsBundle(c) == \E k \in 0..(MaxWrap + 1) : IsBundle(Unwrap(c, k))

\* src holds a proof object of the ProofBundle shape in one of the places a
\* proof is looked for
CarriesProof(src) ==
    /\ isRecord(src)
    /\ \/ \E k \in {"zkProof", "proof", "groth16Proof", "proofBundle"} : HoldsBundle(Get(src, k))
       \/ \E k \in {"proof", "zkProof", "groth16Proof"} : HoldsBundle(Get(Get(src, "zk"), k))

SomeProof == \E i \in 1..Len(zk.xs) : zk.xs[i].zkProof # Undefined
SomeFlag  == \E i \in 1..Len(Sources) : CarriesFlag(Sources[i])

\* the public-input list of the first source that has one is not empty
InputsNonEmpty ==
    \E i \in 1..Len(zk.xs) :
        /\ zk.xs[i].zkPublicInputs # Undefined
        /\ Len(zk.xs[i].zkPublicInputs.kids) > 0
        /\ \A j \in 1..(i - 1) : zk.xs[j].zkPublicInputs = Undefined

\* the vault owner's canonical hash (as a hex value, letter case aside) and
\* public input both equal the seal's
OwnerMatches ==
    /\ Len(zk.xs) = 4
    /\ zk.xs[4].canonicalHashHex # Undefined
    /\ ToLowerCase(zk.xs[4].canonicalHashHex.s) = seal.canonicalHashHex
    /\ zk.xs[4].zkPoseidonHashDec # Undefined
    /\ zk.xs[4].zkPoseidonHashDec.s = seal.zkPoseidonHashDec

HighestTier ==
    IF SomeProof \/ InputsNonEmpty THEN "proof-present"
    ELSE IF SomeFlag THEN "verified-flag"
    ELSE IF OwnerMatches THEN "seal-match"
    ELSE "none"

\* C4: the tier of a returned seal is the highest one whose condition holds:
\* proof-present if some source yields a proof object or the merged
\* public-input list is non-empty, else verified-flag if some source carries
\* a flag that is exactly true, "true", 1 or "1", else seal-match if the
\* vault owner's canonical hash and public input equal the seal's, else none.
C4_TierByPriority == Sealed => seal.zkAssurance = HighestTier

\* a seal built from a flag, a proof and a matching owner record at once
C4_Witness ==
    /\ spc = "sealed" /\ SomeFlag /\ SomeProof /\ OwnerMatches
    /\ seal.zkAssurance = "proof-present"

\* C5: in a returned seal zkOk is true exactly when the tier is not "none",
\* and the label is VERIFIED exactly then, SEALED otherwise.
C5_OkIffTier ==
    /\ Sealed => (seal.zkOk <=> seal.zkAssurance # "none")
    /\ spc = "labelled" =>
          /\ okWord \in {"VERIFIED", "SEALED"}
          /\ okWord = "VERIFIED" <=> seal.zkAssurance # "none"

\* a sigil whose only evidence is the owner match was labelled VERIFIED
C5_Witness ==
    /\ spc = "labelled" /\ okWord = "VERIFIED" /\ seal.zkAssurance = "seal-match"
    /\ ~SomeFlag /\ ~SomeProof

PickedFields == {"canonicalHashHex", "zkPoseidonHashDec", "zkProof", "zkPublicInputs",
                 "proofHints", "verifiedBy"}

\* C6: each field of the merge other than the flag is the value of the first
\* extract, in list order, that defines it (undefined if none does), and the
\* merged flag is true exactly when some extract's flag is true.
C6_FirstDefinedWins ==
    Sealed =>
        /\ \A f \in PickedFields :
              /\ (\A i \in 1..Len(zk.xs) : zk.xs[i][f] = Undefined) => zk.merged[f] = Undefined
              /\ \A i \in 1..Len(zk.xs) :
                    (zk.xs[i][f] # Undefined /\ \A j \in 1..(i - 1) : zk.xs[j][f] = Undefined)
                        => zk.merged[f] = zk.xs[i][f]
        /\ zk.merged.verifiedFlag = Bool(\E i \in 1..Len(zk.xs) : zk.xs[i].verifiedFlag = Bool(TRUE))

\* the payload has no proof, the position entry and the position record have
\* different ones, and only the vault owner's flag is true
C6_Witness ==
    /\ spc = "sealed"
    /\ zk.xs[1].zkProof = Undefined /\ zk.xs[2].zkProof # Undefined
    /\ zk.xs[3].zkProof # Undefined /\ zk.xs[3].zkProof # zk.xs[2].zkProof
    /\ zk.merged.zkProof = zk.xs[2].zkProof
    /\ zk.xs[4].verifiedFlag = Bool(TRUE)
    /\ \A i \in 1..3 : zk.xs[i].verifiedFlag # Bool(TRUE)

\* C7: sources with a truthy flag and neither proof nor public inputs give
\* tier verified-flag; as soon as any source, at any position, holds a proof
\* object of the ProofBundle shape, the tier is proof-present and zkOk is true,
\* whatever the flags are.
C7_ProofOutranksFlag ==
    Sealed =>
        /\ (/\ SomeFlag
            /\ \A i \in 1..Len(zk.xs) :
                  zk.xs[i].zkProof = Undefined /\ zk.xs[i].zkPublicInputs = Undefined)
              => seal.zkAssurance = "verified-flag"
        /\ (\E i \in 1..Len(Sources) : CarriesProof(Sources[i]))
              => (seal.zkAssurance = "proof-present" /\ seal.zkOk)

\* the payload carries a flag and no proof, the vault owner carries the proof
C7_Witness ==
    /\ spc = "sealed"
    /\ CarriesFlag(Sources[1]) /\ \A i \in 1..3 : ~CarriesProof(Sources[i])
    /\ CarriesProof(Sources[4])
    /\ seal.zkAssurance = "proof-present" /\ seal.zkOk

EvidenceKeys == {"zkProof", "proof", "groth16Proof", "proofBundle", "zk", "zkPublicInputs",
                 "publicInputs", "inputs", "zkOk", "zkVerified", "verified", "verifiedBy",
                 "zkVerifier"}

\* src has none of the fields a proof object, a public-input list, a verified
\* flag or a verifier attribution is read from
SuppliesNothing(src) == ~isRecord(src) \/ \A k \in EvidenceKeys : Get(src, k) = Undefined

\* no source yields a proof object, a public-input list, a truthy flag or a
\* verifier attribution
NoEvidence ==
    /\ ~SomeFlag
    /\ \A i \in 1..Len(zk.xs) :
          /\ zk.xs[i].zkProof = Undefined
          /\ zk.xs[i].zkPublicInputs = Undefined
          /\ zk.xs[i].verifiedBy = Undefined

\* C8 (as stated): when no source supplies a proof object, a public-input
\* list, a verified flag or a verifier attribution, the seal has zkOk false
\* and tier none.
C8_NoneWithoutEvidence ==
    (Sealed /\ \A i \in 1..Len(Sources) : SuppliesNothing(Sources[i]))
        => (~seal.zkOk /\ seal.zkAssurance = "none")

\* C8 (amended): when no source supplies a proof object, a public-input list,
\* a truthy verified flag or a verifier attribution, and the vault owner
\* record does not supply a canonical hash and a public input that both equal
\* the seal's, the seal has zkOk false and tier none.
C8_NoneWithoutEvidenceOrMatch ==
    (Sealed /\ NoEvidence /\ ~OwnerMatches) => (~seal.zkOk /\ seal.zkAssurance = "none")

\* scenario A: the three-field payload sealed with no vault and no position
C8_Witness ==
    /\ spc = "sealed" /\ payload = CoreA /\ vault = Null /\ pos = Undefined
    /\ ~seal.zkOk /\ seal.zkAssurance = "none"

\* C9: tier seal-match is reached only if the vault owner's canonical hash
\* and public input equal the artifact's own, the own values being those the
\* seal has when the owner record is left out.
C9_IndependentMatch ==
    (Sealed /\ seal.zkAssurance = "seal-match") =>
        \E own \in {buildZkSeal(payload, Null, pos).seal} :
            /\ ToLowerCase(zk.xs[4].canonicalHashHex.s) = own.canonicalHashHex
            /\ zk.xs[4].zkPoseidonHashDec.s = own.zkPoseidonHashDec

\* the 21 core fields of pl, the five optional ones as null when missing
CoreFieldsOf(pl) ==
    Obj(CoreKeys,
        Tuple([i \in 1..Len(CoreKeys) |->
            IF Get(pl, CoreKeys[i]) = Undefined /\ CoreKeys[i] \in NullishKeys
            THEN Null ELSE Get(pl, CoreKeys[i])]))

\* the canonical string of the payload's core fields
CanonicalOf(pl) == stableStringify(toJsonValue(CoreFieldsOf(pl)))

\* the sources that supply a canonical hash
HashSuppliers == {i \in 1..Len(zk.xs) : zk.xs[i].canonicalHashHex # Undefined}

UpperHex == {"A", "B", "C", "D", "E", "F"}

\* C18 (as stated): the seal's canonical hash is the digest of the payload's
\* canonical string and canonicalBytesLen is the byte length of that string,
\* for every payload and every set of proof sources.
C18_HashOfCanonical ==
    Sealed =>
        \E c \in {CanonicalOf(payload)} :
            /\ seal.canonicalHashHex = sha256Hex(c)
            /\ seal.canonicalBytesLen = Utf8ByteLength(c)

\* C18 (amended): canonicalBytesLen is the byte length of the canonical
\* string of the payload's core fields; the canonical hash is the hash
\* supplied by the first source that supplies one, in lower case, and only
\* when no source supplies one it is the digest of "SM:POS:CANON:" followed
\* by that canonical string.
C18_HashSuppliedOrDerived ==
    Sealed =>
        \E c \in {CanonicalOf(payload)} :
            /\ seal.canonicalBytesLen = Utf8ByteLength(c)
            /\ HashSuppliers = {} => seal.canonicalHashHex = sha256Hex("SM:POS:CANON:" \o c)
            /\ \A i \in HashSuppliers :
                  (\A j \in HashSuppliers : i <= j) =>
                      /\ Len(seal.canonicalHashHex) = Len(zk.xs[i].canonicalHashHex.s)
                      /\ \A k \in 1..Len(seal.canonicalHashHex) :
                            /\ CharAt(seal.canonicalHashHex, k) \notin UpperHex
                            /\ ToLowerCase(CharAt(zk.xs[i].canonicalHashHex.s, k))
                                  = CharAt(seal.canonicalHashHex, k)

\* a payload with proof fields next to its core fields was sealed with the
\* derived hash
C18_Witness ==
    /\ spc = "sealed" /\ HashSuppliers = {}
    /\ Get(payload, "zkProof") # Undefined /\ Get(payload, "v") = Str("SM-POS-1")
    /\ seal.canonicalHashHex = sha256Hex("SM:POS:CANON:" \o CanonicalOf(payload))

(***************************************************************************)
(* Properties of the proof normaliser (checked under SpecProof).           *)
(***************************************************************************)
\* v has three groups under one naming, A and C arrays of strings and B an
\* array of arrays of strings, of any length
LooseUnder(v, n) ==
    isStringArray(Get(v, n[1])) /\ isStringArray2(Get(v, n[2])) /\ isStringArray(Get(v, n[3]))

IsLooseBundle(v) == \E n \in {<<"pi_a", "pi_b", "pi_c">>, <<"a", "b", "c">>} : LooseUnder(v, n)

\* the candidate was returned as a proof
Recognised == ppc = "done" /\ proof # Undefined

\* C10 (as stated): a candidate is recognised only if, under its "proof"
\* wrappers, it has the ProofBundle shape under one of the two namings: A a
\* pair of strings, B a pair of pairs of strings, C a pair of strings.
C10_OnlyBundleShape == Recognised => HoldsBundle(cand)

\* C10 (amended): a candidate is recognised exactly when, under some number
\* of "proof" wrappers, it has three groups under one of the two namings with
\* A and C arrays of strings and B an array of arrays of strings, of any
\* length; the result has the keys pi_a, pi_b, pi_c and holds the groups of
\* the outermost such level, whichever naming they came under (those named
\* pi_a/pi_b/pi_c if both namings qualify).
C10_StringGroups ==
    /\ ppc \in {"done", "threw"} =>
          (Recognised <=> \E k \in 0..(MaxWrap + 1) : IsLooseBundle(Unwrap(cand, k)))
    /\ Recognised =>
          /\ proof.keys = <<"pi_a", "pi_b", "pi_c">>
          /\ \E k \in 0..(MaxWrap + 1) :
                \E n \in {<<"pi_a", "pi_b", "pi_c">>, <<"a", "b", "c">>} :
                    /\ \A j \in 0..(k - 1) : ~IsLooseBundle(Unwrap(cand, j))
                    /\ LooseUnder(Unwrap(cand, k), n)
                    /\ n[1] = "a" => ~LooseUnder(Unwrap(cand, k), <<"pi_a", "pi_b", "pi_c">>)
                    /\ proof.kids = <<Get(Unwrap(cand, k), n[1]), Get(Unwrap(cand, k), n[2]),
                                      Get(Unwrap(cand, k), n[3])>>

\* a wrapped candidate with the a/b/c naming and three-element groups was
\* recognised
C10_Witness ==
    /\ Recognised
    /\ ~HoldsBundle(cand)
    /\ Get(cand, "proof").t = "object"
    /\ Len(Get(Get(cand, "proof"), "a").kids) = 3
    /\ proof.kids[1] = Get(Get(cand, "proof"), "a")

\* C11: normalizeGroth16Proof returns, without raising, on every candidate,
\* a "proof" wrapper that refers back to itself included.
C11_NormalizeTotal == ppc # "threw"

(***************************************************************************)
(* makeRng: the xorshift32 generators of the two minters.                  *)
(* A 32-bit word is a tuple of 32 bits, index 1 the least significant.     *)
(***************************************************************************)
WordBits == 32
Bit == {0, 1}

\* the word whose upper and lower 16 bits are the numbers hi and lo
Word(hi, lo) ==
    Tuple([i \in 1..WordBits |->
        IF i <= 16 THEN (lo \div (2 ^ (i - 1))) % 2 ELSE (hi \div (2 ^ (i - 17))) % 2])

\* seed >>> 0 : a 32-bit seed is its own unsigned value
ToUint32(w) == w

\* x << n on 32 bits
Shl(w, n) == Tuple([i \in 1..WordBits |-> IF i > n THEN w[i - n] ELSE 0])

\* x >>> n on 32 bits
Shr(w, n) == Tuple([i \in 1..WordBits |-> IF i + n <= WordBits THEN w[i + n] ELSE 0])

\* a ^ b
Xor(a, b) == Tuple([i \in 1..WordBits |-> (a[i] + b[i]) % 2])

\* x ^= x << 13; x ^= x >>> 17; x ^= x << 5
XorShiftStep(w) ==
    LET a == Xor(w, Shl(w, 13))
        b == Xor(a, Shr(a, 17))
    IN  Xor(b, Shl(b, 5))

\* the divisor of each minter's generator, as 33 bits: 4294967296 and 0xffffffff
Divisor(kind) ==
    IF kind = "position" THEN Tuple([i \in 1..(WordBits + 1) |-> IF i = WordBits + 1 THEN 1 ELSE 0])
    ELSE Tuple([i \in 1..(WordBits + 1) |-> IF i = WordBits + 1 THEN 0 ELSE 1])

\* (x >>> 0) / divisor, kept as the exact quotient num / den
RngValue(kind, w) == [num |-> w \o <<0>>, den |-> Divisor(kind)]

Generators == 1..3

\* every generator reads and writes one cell shared by all of them
SharedCell(g) == 1

\* the cell a generator closes over: makeRng's own `let x`
ClosureCell(g) == g

\* seeds: 0, 1, the offset basis 0x811c9dc5, 0x80000000, and the words one,
\* two and three steps before 0xffffffff
RngSeeds ==
    { Word(0, 0), Word(0, 1), Word(33052, 40389), Word(32768, 0),
      Word(24172, 64743), Word(57443, 62214), Word(2345, 30943) }

Minters == {"position", "resolution"}

\* three makeRng calls: generators 1 and 2 from the same minter and seed
InitRng ==
    /\ \E s \in RngSeeds, t \in RngSeeds, k \in Minters, l \in Minters :
          /\ rngSeed = <<s, s, t>>
          /\ rngKind = <<k, k, l>>
          /\ rngX = <<ToUint32(s), ToUint32(s), ToUint32(t)>>
    /\ rngOut = <<<<>>, <<>>, <<>>>>
    /\ CanonIdle
    /\ SealIdle
    /\ ProofIdle
    /\ EmbedIdle
    /\ MintIdle
    /\ HelpIdle
    /\ ControlIdle
    /\ ExportIdle
    /\ GateIdle

\* one call rnd() on generator g
Rnd(g) ==
    /\ Len(rngOut[g]) < MaxCalls
    /\ \E w \in {XorShiftStep(rngX[ClosureCell(g)])} :
          /\ rngX' = [rngX EXCEPT ![ClosureCell(g)] = w]
          /\ rngOut' = [rngOut EXCEPT ![g] = Append(@, RngValue(rngKind[g], w))]
    /\ UNCHANGED <<rngSeed, rngKind>>
    /\ UNCHANGED canonVars
    /\ UNCHANGED sealVars
    /\ UNCHANGED proofVars
    /\ UNCHANGED embedVars
    /\ UNCHANGED mintVars
    /\ UNCHANGED helpVars
    /\ UNCHANGED ctrlVars
    /\ UNCHANGED exportVars
    /\ UNCHANGED gateVars

NextRng == \E g \in Generators : Rnd(g)

SpecRng == InitRng /\ [][NextRng]_vars

(***************************************************************************)
(* Generator properties                                                    *)
(***************************************************************************)
RECURSIVE Iterate(_, _)
Iterate(w, n) == IF n = 0 THEN w ELSE XorShiftStep(Iterate(w, n - 1))

\* a < b on 33-bit numbers
RECURSIVE LessFrom(_, _, _)
LessFrom(a, b, i) ==
    IF i = 0 THEN FALSE
    ELSE IF a[i] # b[i] THEN a[i] < b[i]
    ELSE LessFrom(a, b, i - 1)

InUnitInterval(v) == LessFrom(v.num, v.den, WordBits + 1)

Called(g) == 1..Len(rngOut[g])

\* C19: generators of one minter built from the same seed return the same
\* value at every call index both have reached, whatever calls were made on
\* the other generators in between.
C19_SameSeedSameSequence ==
    \A g \in Generators, h \in Generators :
        (rngSeed # <<>> /\ rngSeed[g] = rngSeed[h] /\ rngKind[g] = rngKind[h]) =>
            \A k \in Called(g) \cap Called(h) : rngOut[g][k] = rngOut[h][k]

\* generators 1 and 2 have been called in turn with calls on generator 3 in
\* between, and generator 3 was built from another seed
C19_Witness ==
    /\ rngSeed # <<>>
    /\ rngSeed[3] # rngSeed[1]
    /\ Len(rngOut[1]) = MaxCalls
    /\ Len(rngOut[2]) = 2
    /\ Len(rngOut[3]) = 1
    /\ rngOut[1][1] # rngOut[1][2]

\* C20: every value returned follows the xorshift recurrence from the seed
\* and lies in [0,1).
C20_RecurrenceInUnitInterval ==
    \A g \in Generators :
        rngSeed # <<>> =>
            \A k \in Called(g) :
                /\ rngOut[g][k].num = Iterate(rngSeed[g], k) \o <<0>>
                /\ InUnitInterval(rngOut[g][k])

(***************************************************************************)
(* Embedding: the payload block of a container and its reader.             *)
(***************************************************************************)
\* String.prototype.indexOf(lit, from), 1-based; 0 when lit does not occur
IndexOfSub(s, lit, from) ==
    LET hits == {k \in from..(Len(s) - Len(lit) + 1) : SubSeq(s, k, k + Len(lit) - 1) = lit}
    IN  IF hits = {} THEN 0 ELSE CHOOSE k \in hits : \A j \in hits : k <= j

RECURSIVE ReplaceFrom(_, _, _, _)
ReplaceFrom(s, lit, by, i) ==
    LET k == IndexOfSub(s, lit, i)
    IN  IF k = 0 THEN SubSeq(s, i, Len(s))
        ELSE SubSeq(s, i, k - 1) \o by \o ReplaceFrom(s, lit, by, k + Len(lit))

\* s.replace(/lit/g, by)
ReplaceAll(s, lit, by) == ReplaceFrom(s, lit, by, 1)

\* esc: the five XML entities, "&" first
esc(s) ==
    ReplaceAll(ReplaceAll(ReplaceAll(ReplaceAll(ReplaceAll(s,
        "&", "&amp;"), "<", "&lt;"), ">", "&gt;"), "\"", "&quot;"), "'", "&apos;")

\* safeCdata: a CDATA section, every "]]>" of the text split over two sections
safeCdata(raw) == "<![CDATA[" \o ReplaceAll(raw, "]]>", "]]]]><![CDATA[>") \o "]]>"

RECURSIVE JsonStringify(_)
\* JSON.stringify: own keys in insertion order, undefined properties left
\* out, undefined elements and non-finite numbers written as null
JsonStringify(v) ==
    IF v.t \in {"null", "undefined"} THEN "null"
    ELSE IF v.t = "string" THEN JsonQuote(v.s)
    ELSE IF v.t = "number" THEN (IF IsFiniteNumber(v) THEN NumberToString(v) ELSE "null")
    ELSE IF v.t = "boolean" THEN (IF v.n = 1 THEN "true" ELSE "false")
    ELSE IF v.t = "array"
         THEN "[" \o JoinComma([i \in 1..Len(v.kids) |-> JsonStringify(v.kids[i])]) \o "]"
    ELSE LET own == SelectSeq(Tuple([i \in 1..Len(v.keys) |-> i]), LAMBDA i : v.kids[i].t # "undefined")
         IN  "{" \o JoinComma([j \in 1..Len(own) |->
                       JsonQuote(v.keys[own[j]]) \o ":" \o JsonStringify(v.kids[own[j]])]) \o "}"

\* String(payload.field)
FieldText(pl, k) == StringOf(Get(pl, k))

\* a value thrown when a property of undefined is read
TypeError == JV("TypeError", "", 0, <<>>, <<>>)

\* v.toString(10) whatever the sign
biDecSigned(v) == NumberToString(v)

\* biDec: v < 0n ? "0" : v.toString(10)
biDec(v) == IF v.n < 0 THEN "0" ELSE NumberToString(v)

\* Math.floor of a finite number: a whole number and -0 are kept
MathFloor(f) == IF f.s = "+.5" THEN Num(f.n) ELSE f

\* typeof f === "number" && Number.isFinite(f) ? Math.floor(f) : 0, then
\* clamped at 0
FloorNonNeg(f) == IF IsFiniteNumber(f) /\ MathFloor(f).n >= 0 THEN MathFloor(f) ELSE Num(0)

coerceKaiMoment(v) ==
    IF ~isRecord(v) THEN Obj(<<"pulse", "beat", "stepIndex">>, <<Num(0), Num(0), Num(0)>>)
    ELSE Obj(<<"pulse", "beat", "stepIndex">>,
             <<FloorNonNeg(Get(v, "pulse")), FloorNonNeg(Get(v, "beat")), FloorNonNeg(Get(v, "stepIndex"))>>)

\* the object literal `base` of makePayload
PayloadBase(ps, entry, lock, owner, resolution, settlement) ==
    Obj(CoreKeys,
        << Str("SM-POS-1"), Str("position"), Get(owner, "userPhiKey"), Get(owner, "kaiSignature"),
           Get(ps, "marketId"), Get(ps, "id"), Get(entry, "side"),
           Str(biDec(Get(lock, "lockedStakeMicro"))), Str(biDec(Get(entry, "sharesMicro"))),
           Str(biDec(Get(entry, "avgPriceMicro"))), Str(biDec(Get(entry, "worstPriceMicro"))),
           Str(biDec(Get(entry, "feeMicro"))), Str(biDec(Get(entry, "totalCostMicro"))),
           Get(lock, "vaultId"), Get(lock, "lockId"),
           coerceKaiMoment(Get(entry, "openedAt")), Get(entry, "venue"),
           Get(entry, "marketDefinitionHash"),
           IF Truthy(resolution)
           THEN Obj(<<"outcome", "resolvedPulse", "status", "creditedMicro", "debitedMicro">>,
                    << Get(resolution, "outcome"), Get(resolution, "resolvedPulse"), Get(ps, "status"),
                       IF Truthy(settlement) THEN Str(biDec(Get(settlement, "creditedMicro"))) ELSE Undefined,
                       IF Truthy(settlement) THEN Str(biDec(Get(settlement, "debitedMicro"))) ELSE Undefined >>)
           ELSE Undefined,
           Str("Position " \o StringOf(Get(entry, "side"))), Undefined >>)

\* the object whose keys and values are the pairs of a list
ObjOfPairs(pairs) ==
    Obj(Tuple([i \in 1..Len(pairs) |-> pairs[i][1]]), Tuple([i \in 1..Len(pairs) |-> pairs[i][2]]))

\* `extra`: the truthy fields of the merge, under the names of the payload
PayloadExtra(merged) ==
    ObjOfPairs(SelectSeq(
        << <<"zkProof", merged.zkProof>>, <<"zkPublicInputs", merged.zkPublicInputs>>,
           <<"zkPoseidonHash", merged.zkPoseidonHashDec>>, <<"proofHints", merged.proofHints>>,
           <<"zkOk", IF Truthy(merged.verifiedFlag) THEN Bool(TRUE) ELSE Undefined>>,
           <<"verifiedBy", merged.verifiedBy>> >>,
        LAMBDA e : Truthy(e[2])))

\* Object.assign(base, extra) with the merge of base, pos, pos.entry and owner
AssignExtra(base, ps, entry, owner) ==
    WithFields(base, PayloadExtra(mergePrefer(<< extractZkFromUnknown(base), extractZkFromUnknown(ps),
                                                 extractZkFromUnknown(entry), extractZkFromUnknown(owner) >>)))

\* makePayload; TypeError when pos.lock, pos.entry or vault.owner is missing
makePayload(ps, vlt) ==
    IF ~isRecord(Get(ps, "entry")) \/ ~isRecord(Get(ps, "lock")) \/ ~isRecord(Get(vlt, "owner"))
    THEN TypeError
    ELSE AssignExtra(PayloadBase(ps, Get(ps, "entry"), Get(ps, "lock"), Get(vlt, "owner"),
                                 Get(ps, "resolution"), Get(ps, "settlement")),
                     ps, Get(ps, "entry"), Get(vlt, "owner"))

MICRO_PER_PHI == 1000000

IsDigits(s) == s # "" /\ \A i \in 1..Len(s) : IsDigit(CharAt(s, i))

RECURSIVE PadStart(_, _, _)
PadStart(s, n, c) == IF Len(s) >= n THEN s ELSE PadStart(c \o s, n, c)

\* BigInt(s).toString(10) for a string of digits: leading zeros dropped
BigIntDigits(s) ==
    LET nz == {i \in 1..Len(s) : CharAt(s, i) # "0"}
    IN  IF nz = {} THEN "0" ELSE SubSeq(s, CHOOSE i \in nz : \A j \in nz : i <= j, Len(s))

\* microDecToPhiDec6: m / MICRO_PER_PHI and m % MICRO_PER_PHI on the decimal
\* digits of m, of any length
microDecToPhiDec6(microDec) ==
    IF ~IsDigits(microDec) THEN "0.000000"
    ELSE LET m == BigIntDigits(microDec)
         IN  IF Len(m) <= 6 THEN "0." \o PadStart(m, 6, "0")
             ELSE SubSeq(m, 1, Len(m) - 6) \o "." \o SubSeq(m, Len(m) - 5, Len(m))

\* phiDec6ToNumber, the number kept in millionths: a + b / 1e6
phiDec6ToMicro(phiDec6) ==
    LET dot == IndexOfSub(phiDec6, ".", 1)
    IN  IF dot = 0 \/ Len(phiDec6) # dot + 6 \/ ~IsDigits(SubSeq(phiDec6, 1, dot - 1))
           \/ ~IsDigits(SubSeq(phiDec6, dot + 1, dot + 6)) THEN 0
        ELSE ParseDigits(phiDec6, 1, 0).n * MICRO_PER_PHI + ParseDigits(phiDec6, dot + 1, 0).n

\* formatUsd2 of a finite amount given in millionths: usd.toFixed(2)
formatUsd2(usdMicro) ==
    LET cents == (usdMicro + 5000) \div 10000
    IN  DigitsOf(cents \div 100) \o "." \o PadStart(DigitsOf(cents % 100), 2, "0")

\* typeof c === "number" && Number.isFinite(c) && c > 0
IsPositiveNumber(c) == IsFiniteNumber(c) /\ c.n > 0

\* Number(c) for a string of digits; other strings of the model are not numeric
NumberOf(c) == IF IsDigits(c.s) THEN Num(ParseDigits(c.s, 1, 0).n) ELSE NonFinite("NaN")

\* the rate a candidate gives, Null when it gives none
RateOf(c) ==
    IF IsPositiveNumber(c) THEN c
    ELSE IF c.t = "string" /\ IsPositiveNumber(NumberOf(c)) THEN NumberOf(c)
    ELSE Null

\* a rate read from the arguments alone
detectUsdPerPhiFromVault(g, vlt) ==
    LET owner == Get(vlt, "owner")
        candidates == << Get(vlt, "usdPerPhi"), Get(vlt, "phiUsd"), Get(vlt, "usd_rate"), Get(vlt, "usdRate"),
                         Get(Get(vlt, "pricing"), "usdPerPhi"), Get(owner, "usdPerPhi"), Get(owner, "phiUsd") >>
        hits == SelectSeq(candidates, LAMBDA c : RateOf(c) # Null)
    IN  IF ~Truthy(vlt) \/ ~isRecord(vlt) \/ hits = <<>> THEN Null ELSE RateOf(Head(hits))

\* detectUsdPerPhi: g is globalThis.__SM_USD_PER_PHI__ at the time of the call
detectUsdPerPhi(g, vlt) ==
    IF IsPositiveNumber(g) THEN g ELSE detectUsdPerPhiFromVault(g, vlt)

\* the path data drawn from the seed: a function of the seed alone, kept as
\* the seed itself
GeometryOf(seedHex) == "  <path d=\"" \o seedHex \o "\"/>\n"

\* buildSvg's template, given the seal buildZkSeal returned and the value of
\* globalThis.__SM_USD_PER_PHI__ when line 855 runs: the root element with
\* the attributes the reader probes and those of seal and wager, <desc>, the
\* payload block and the geometry. The other attributes, <title> and the
\* seal block repeat payload and seal values, escaped, and come with no
\* "<metadata" or "<desc" before the payload block. The dash written for an
\* unknown wager is kept as "-".
buildSvgText(pl, svgHashSeed, sl, g, vlt) ==
    LET stakePhiDec6 == microDecToPhiDec6(FieldText(pl, "lockedStakeMicro"))
        usdPerPhi    == detectUsdPerPhi(g, vlt)
        stakeUsd2    == IF usdPerPhi # Null
                        THEN formatUsd2(phiDec6ToMicro(stakePhiDec6) * usdPerPhi.n)
                        ELSE "-"
    IN  "<svg data-kind=\"sigilmarkets-position\" data-v=\"SM-POS-1\""
        \o " data-market-id=\"" \o esc(FieldText(pl, "marketId")) \o "\""
        \o " data-position-id=\"" \o esc(FieldText(pl, "positionId")) \o "\""
        \o " data-user-phikey=\"" \o esc(FieldText(pl, "userPhiKey")) \o "\""
        \o " data-kai-signature=\"" \o esc(FieldText(pl, "kaiSignature")) \o "\""
        \o " data-payload-hash=\"" \o esc(sl.canonicalHashHex) \o "\""
        \o " data-zk-ok=\"" \o esc(IF sl.zkOk THEN "true" ELSE "false") \o "\""
        \o " data-zk-assurance=\"" \o esc(sl.zkAssurance) \o "\""
        \o " data-wager-phi=\"" \o esc(stakePhiDec6) \o "\""
        \o " data-wager-usd=\"" \o esc(stakeUsd2) \o "\""
        \o (IF usdPerPhi # Null
            THEN " data-usd-per-phi=\"" \o esc(DigitsOf(usdPerPhi.n) \o ".000000") \o "\"" ELSE "")
        \o ">\n"
        \o "  <desc id=\"d\">" \o esc("Position sigil with embedded proof + metadata.") \o "</desc>\n\n"
        \o "  <metadata>" \o safeCdata(JsonStringify(pl)) \o "</metadata>\n"
        \o GeometryOf(svgHashSeed)
        \o "</svg>"

\* the text hashed for the seed of a position sigil
PositionSeedText(pl) ==
    "SM:POS:SEED:" \o FieldText(pl, "positionId") \o ":" \o FieldText(pl, "lockId")
        \o ":" \o FieldText(pl, "userPhiKey")

\* buildSvg, its awaits resolved: vlt and ps as passed, g as read at line 855
buildSvg(pl, svgHashSeed, vlt, ps, g) ==
    buildSvgText(pl, svgHashSeed, buildZkSeal(pl, vlt, ps).seal, g, vlt)

\* buildPositionSigilSvgFromPayload with __SM_USD_PER_PHI__ unset
PositionContainer(pl) == buildSvg(pl, sha256Hex(PositionSeedText(pl)), Null, Undefined, Undefined)

\* the text hashed for the seed of a resolution sigil
ResolutionSeedText(pl) ==
    "SM:RES:" \o FieldText(pl, "marketId") \o ":" \o FieldText(pl, "outcome") \o ":"
        \o FieldText(pl, "finalPulse") \o ":" \o FieldText(Get(pl, "oracle"), "provider")

\* buildResolutionSvg's template, cut down the same way
buildResolutionSvg(pl, seedStr) ==
    "<svg data-kind=\"sigilmarkets-resolution\" data-v=\"SM-RES-1\""
    \o " data-market-id=\"" \o esc(FieldText(pl, "marketId")) \o "\""
    \o " data-outcome=\"" \o esc(FieldText(pl, "outcome")) \o "\""
    \o " data-final-pulse=\"" \o esc(FieldText(pl, "finalPulse")) \o "\""
    \o " data-oracle-provider=\"" \o esc(FieldText(Get(pl, "oracle"), "provider")) \o "\">\n"
    \o "  <desc>" \o esc("Market " \o FieldText(pl, "marketId") \o "; Outcome " \o FieldText(pl, "outcome")
                         \o "; FinalPulse " \o FieldText(pl, "finalPulse")
                         \o "; Oracle " \o FieldText(Get(pl, "oracle"), "provider")) \o "</desc>\n"
    \o "  <metadata>" \o esc(JsonStringify(pl)) \o "</metadata>\n"
    \o GeometryOf(seedStr)
    \o "</svg>"

\* mintResolutionSigil's container
ResolutionContainer(pl) == buildResolutionSvg(pl, sha256Hex(ResolutionSeedText(pl)))

ContainerOf(kind, pl) == IF kind = "position" THEN PositionContainer(pl) ELSE ResolutionContainer(pl)

\* extractBetween with /<tag[^>]*>([\s\S]*?)<\/tag>/ : the text between the
\* first opening tag and the first closing tag after it, trimmed; Null when
\* there is no match or the text is blank
ExtractElement(text, tag) ==
    LET p  == IndexOfSub(text, "<" \o tag, 1)
        gt == IF p = 0 THEN 0 ELSE IndexOfSub(text, ">", p + Len(tag) + 1)
        e  == IF gt = 0 THEN 0 ELSE IndexOfSub(text, "</" \o tag \o ">", gt + 1)
    IN  IF e = 0 \/ Trim(SubSeq(text, gt + 1, e - 1)) = "" THEN Null
        ELSE Str(Trim(SubSeq(text, gt + 1, e - 1)))

RECURSIVE MatchQuotedFrom(_, _, _)
\* /prefix([^"]+)"/ from position i: the first non-empty run up to a quote
MatchQuotedFrom(text, prefix, i) ==
    LET p == IndexOfSub(text, prefix, i)
        b == p + Len(prefix)
        q == IF p = 0 THEN 0 ELSE IndexOfSub(text, "\"", b)
    IN  IF q = 0 THEN Null
        ELSE IF q = b THEN MatchQuotedFrom(text, prefix, p + 1)
        ELSE Str(SubSeq(text, b, q - 1))

\* extractBetween with an attribute or key pattern
ExtractQuoted(text, prefix) ==
    LET m == MatchQuotedFrom(text, prefix, 1)
    IN  IF m = Null \/ Trim(m.s) = "" THEN Null ELSE Str(Trim(m.s))

\* a ?? b
Coalesce(a, b) == IF a \in {Null, Undefined} THEN b ELSE a

StripPrefix(s, lit) == IF StartsWithAt(s, 1, lit) THEN SubSeq(s, Len(lit) + 1, Len(s)) ELSE s
StripSuffix(s, lit) ==
    IF Len(s) >= Len(lit) /\ SubSeq(s, Len(s) - Len(lit) + 1, Len(s)) = lit
    THEN SubSeq(s, 1, Len(s) - Len(lit)) ELSE s

\* the reader's patterns are matched case-insensitively; the containers
\* above write their tags, attributes and keys in one case only
parseEmbeddedJson(svgText) ==
    LET metaRaw == Coalesce(ExtractElement(svgText, "metadata"), ExtractElement(svgText, "desc"))
        cleaned == Trim(StripSuffix(StripPrefix(metaRaw.s, "<![CDATA["), "]]>"))
        parsedV == IF metaRaw = Null THEN SyntaxError ELSE JsonParse(cleaned)
        userPhiKey   == Coalesce(Coalesce(ExtractQuoted(svgText, "data-user-phikey=\""),
                                          ExtractQuoted(svgText, "data-userPhiKey=\"")),
                                 ExtractQuoted(svgText, "userPhiKey\":\""))
        kaiSignature == Coalesce(Coalesce(ExtractQuoted(svgText, "data-kai-signature=\""),
                                          ExtractQuoted(svgText, "data-kaiSignature=\"")),
                                 ExtractQuoted(svgText, "kaiSignature\":\""))
    IN  IF isRecord(parsedV) THEN parsedV
        ELSE IF userPhiKey # Null \/ kaiSignature # Null
             THEN Obj(<<"userPhiKey", "kaiSignature">>,
                      <<Coalesce(userPhiKey, Undefined), Coalesce(kaiSignature, Undefined)>>)
        ELSE Null

\* strings a payload may hold
TrickyStrings == {"m1", "a]]>b", "a<b", "a&b", "a\"b", "a'b", "x</metadata>y"}
\* decimal strings of micro quantities: a small one and 2^128
DecimalStrings == {"1500000", "340282366920938463463374607431768211456"}

PositionPayloads ==
    { Obj(<<"v", "kind", "userPhiKey", "kaiSignature", "marketId", "positionId", "side",
            "lockedStakeMicro", "label", "note">>,
          <<Str("SM-POS-1"), Str("position"), Str("phi1"), Str("sig1"), Str(m), Str("p1"), Str(sd),
            Str(q), Str("Position " \o sd), Undefined>>) :
        m \in TrickyStrings, sd \in {"YES", "NO"}, q \in DecimalStrings }

ResolutionPayloads ==
    { Obj(<<"v", "kind", "marketId", "outcome", "finalPulse", "oracle">>,
          <<Str("SM-RES-1"), Str("resolution"), Str(m), Str(o), Num(fp),
            Obj(<<"provider">>, <<Str("kai")>>)>>) :
        m \in TrickyStrings, o \in {"YES", "NO"}, fp \in {0, 120} }

InitEmbed ==
    /\ \E k \in Minters :
          /\ ekind = k
          /\ epay \in (IF k = "position" THEN PositionPayloads ELSE ResolutionPayloads)
    /\ etext = ""
    /\ eread = Undefined
    /\ epc = "input"
    /\ CanonIdle
    /\ SealIdle
    /\ ProofIdle
    /\ RngIdle
    /\ MintIdle
    /\ HelpIdle
    /\ ControlIdle
    /\ ExportIdle
    /\ GateIdle

\* the minter writes the container
Embed ==
    /\ epc = "input"
    /\ etext' = ContainerOf(ekind, epay)
    /\ epc' = "embedded"
    /\ UNCHANGED <<epay, ekind, eread>>
    /\ UNCHANGED canonVars
    /\ UNCHANGED sealVars
    /\ UNCHANGED proofVars
    /\ UNCHANGED rngVars
    /\ UNCHANGED mintVars
    /\ UNCHANGED helpVars
    /\ UNCHANGED ctrlVars
    /\ UNCHANGED exportVars
    /\ UNCHANGED gateVars

\* the reader takes the container text
ReadBack ==
    /\ epc = "embedded"
    /\ eread' = parseEmbeddedJson(etext)
    /\ epc' = "read"
    /\ UNCHANGED <<epay, ekind, etext>>
    /\ UNCHANGED canonVars
    /\ UNCHANGED sealVars
    /\ UNCHANGED proofVars
    /\ UNCHANGED rngVars
    /\ UNCHANGED mintVars
    /\ UNCHANGED helpVars
    /\ UNCHANGED ctrlVars
    /\ UNCHANGED exportVars
    /\ UNCHANGED gateVars

NextEmbed == Embed \/ ReadBack

SpecEmbed == InitEmbed /\ [][NextEmbed]_vars

(***************************************************************************)
(* Embedding properties                                                    *)
(***************************************************************************)
\* the payload as JSON carries it: properties that are undefined dropped
RECURSIVE Defined(_)
Defined(v) ==
    IF v.t = "object"
    THEN LET own == SelectSeq(Tuple([i \in 1..Len(v.keys) |-> i]), LAMBDA i : v.kids[i].t # "undefined")
         IN  Obj(Tuple([j \in 1..Len(own) |-> v.keys[own[j]]]),
                 Tuple([j \in 1..Len(own) |-> Defined(v.kids[own[j]])]))
    ELSE IF v.t = "array" THEN Arr(Tuple([i \in 1..Len(v.kids) |-> Defined(v.kids[i])]))
    ELSE v

\* C12: reading back the payload block of a minted container gives a value
\* deep-equal to the payload.
C12_ReadBackEqualsPayload == epc = "read" => DeepEqual(eread, Defined(epay))

(***************************************************************************)
(* Minting: mintPositionSigil and mintResolutionSigil behind their         *)
(* controls. A call runs from one await to the next in one step; the       *)
(* digest primitive resolves or rejects each await.                        *)
(***************************************************************************)
Mints == 1..2

\* the hex digits of the hash kept in a sigil id reference
SigilRefLen == 24

\* a reference of two digits
SigilRefShort(h) == SubSeq(h, 1, 2)

\* svgHashHex.slice(0, 24)
SigilRef(h) == SubSeq(h, 1, IF Len(h) < SigilRefLen THEN Len(h) ELSE SigilRefLen)

\* derivePositionSigilId: a digest of a domain prefix, the position id and the reference
derivePositionSigilId(positionId, ref) == sha256Hex("SM:SIGIL:" \o positionId \o ":" \o ref)

\* what the digest primitive throws when it is unavailable: an Error with a
\* message, or a value that is no Error
ErrorOf(msg) == JV("Error", msg, 0, <<>>, <<>>)
DigestRejections == {ErrorOf("digest unavailable"), Str("unavailable")}

AwaitOutcomes == {[ok |-> TRUE, e |-> Undefined]} \cup {[ok |-> FALSE, e |-> e] : e \in DigestRejections}

\* an await that carries on with a blank value when the digest rejects
AwaitedOrBlank(o, value) == [ok |-> TRUE, v |-> IF o.ok THEN value ELSE "", e |-> Undefined]

\* `await digest` inside the try block: the value, or the rejection thrown
Awaited(o, value) == IF o.ok THEN [ok |-> TRUE, v |-> value, e |-> Undefined]
                     ELSE [ok |-> FALSE, v |-> "", e |-> o.e]

NoSigil  == [sigilId |-> "", svgHash |-> "", url |-> "", payload |-> Undefined]
NoResult == [ok |-> FALSE, error |-> "", sigil |-> NoSigil, svgText |-> ""]

\* the catch block: e instanceof Error ? e.message : "mint failed"
Caught(e) ==
    [ok |-> FALSE, error |-> IF e.t \in {"Error", "TypeError", "RangeError"} THEN e.s ELSE "mint failed",
     sigil |-> NoSigil, svgText |-> ""]

\* URL.createObjectURL(blob): a fresh url per call
ObjectUrl(m) == "blob:" \o DigitsOf(m)

\* position records: a complete one, and one whose entry is missing
PosRecord ==
    Obj(<<"id", "marketId", "status", "entry", "lock">>,
        << Str("p1"), Str("m1"), Str("open"),
           Obj(<<"side", "sharesMicro", "avgPriceMicro", "worstPriceMicro", "feeMicro", "totalCostMicro",
                 "openedAt", "venue">>,
               << Str("YES"), BigInt(3000000), BigInt(500000), BigInt(510000), BigInt(0), BigInt(1500000),
                  Obj(<<"pulse", "beat", "stepIndex">>, <<Num(42), Num(3), Num(7)>>), Str("amm") >>),
           Obj(<<"lockedStakeMicro", "vaultId", "lockId">>, <<BigInt(1500000), Str("v1"), Str("l1")>>) >>)
PosRecordNoEntry ==
    Obj(<<"id", "marketId", "status", "lock">>,
        << Str("p1"), Str("m1"), Str("open"),
           Obj(<<"lockedStakeMicro", "vaultId", "lockId">>, <<BigInt(1500000), Str("v1"), Str("l1")>>) >>)

\* vault records: without a rate, and with usdPerPhi
VaultPlain == Obj(<<"owner">>, <<Obj(<<"userPhiKey", "kaiSignature">>, <<Str("phi1"), Str("sig1")>>)>>)
VaultRated == WithFields(VaultPlain, Obj(<<"usdPerPhi">>, <<Num(2)>>))
VaultRecords == {VaultRated}

\* what other code may leave in globalThis.__SM_USD_PER_PHI__
GlobalRates == {Undefined, Num(3)}

MintArgs ==
    {[kind |-> "position", pos |-> PosRecord, vault |-> v, arg |-> Undefined] : v \in VaultRecords}
    \cup {[kind |-> "position", pos |-> PosRecordNoEntry, vault |-> VaultPlain, arg |-> Undefined]}
    \cup {[kind |-> "resolution", pos |-> Undefined, vault |-> Undefined, arg |-> a] :
            a \in {r \in ResolutionPayloads : Get(r, "marketId") = Str("m1") /\ Get(r, "finalPulse") = Num(120)
                                               /\ Get(r, "outcome") = Str("YES")}}

NewMint(a) ==
    [ kind |-> a.kind, pos |-> a.pos, vault |-> a.vault, arg |-> a.arg,
      pc |-> "idle", payload |-> Undefined, seed |-> "", svgText |-> "", svgHashHex |-> "",
      sigilId |-> "", url |-> "", result |-> NoResult,
      rejected |-> FALSE, after |-> {} ]

NewControl == [mounted |-> TRUE, busy |-> FALSE, pc |-> "idle", toast |-> ""]

\* two controls over equal records
InitMint ==
    /\ gUsd = Undefined
    /\ \E a \in MintArgs : mint = <<NewMint(a), NewMint(a)>>
    /\ ctl = <<NewControl, NewControl>>
    /\ store = <<>>
    /\ CanonIdle
    /\ SealIdle
    /\ ProofIdle
    /\ RngIdle
    /\ EmbedIdle
    /\ HelpIdle
    /\ ControlIdle
    /\ ExportIdle
    /\ GateIdle

\* props.position.sigil, as the store has it
HasSigil(id) == \E i \in 1..Len(store) : store[i].positionId = id

\* can: !props.position.sigil (the resolution control has no such guard)
Can(m) == mint[m].kind = "resolution" \/ ~HasSigil(Get(mint[m].pos, "id").s)

Resolved(m) == mint[m].pc \in {"resolved", "failed"}

\* the locals of a call that has returned are gone
Returned(mm, res) ==
    [mm EXCEPT !.pc = IF res.ok THEN "resolved" ELSE "failed", !.result = res,
               !.payload = Undefined, !.seed = "", !.svgText = "", !.svgHashHex = "", !.sigilId = "", !.url = ""]

\* the mint ends in the catch block
Fail(m, e) == Returned(mint[m], Caught(e))

OtherVarsUnchanged ==
    /\ UNCHANGED canonVars
    /\ UNCHANGED sealVars
    /\ UNCHANGED proofVars
    /\ UNCHANGED rngVars
    /\ UNCHANGED embedVars
    /\ UNCHANGED helpVars
    /\ UNCHANGED ctrlVars
    /\ UNCHANGED exportVars
    /\ UNCHANGED gateVars

\* run: the click; the mint builds its payload and asks for the seed digest
Run(m) ==
    /\ ctl[m].pc = "idle"
    /\ ctl[m].mounted
    \* the controls are numbered in the order in which they are pressed
    /\ \A k \in Mints : k < m => ctl[k].pc # "idle"
    /\ Can(m)
    /\ ctl' = [ctl EXCEPT ![m].busy = TRUE, ![m].pc = "awaiting"]
    /\ \E pl \in {IF mint[m].kind = "position" THEN makePayload(mint[m].pos, mint[m].vault) ELSE mint[m].arg} :
          \E started \in {[mint[m] EXCEPT !.after = {n \in Mints : Resolved(n)}]} :
             mint' = [mint EXCEPT ![m] =
                        IF pl = TypeError
                        THEN Returned(started, Caught(JV("TypeError", "Cannot read properties of undefined", 0, <<>>, <<>>)))
                        ELSE [started EXCEPT !.pc = "seed", !.payload = pl]]
    /\ UNCHANGED <<gUsd, store>>
    /\ OtherVarsUnchanged

\* the seed digest settles; the position mint goes on into buildZkSeal and
\* its first digest, the resolution mint builds its container and asks for
\* the digest of the text
SeedDigest(m) ==
    /\ mint[m].pc = "seed"
    /\ \E h \in {sha256Hex(IF mint[m].kind = "position"
                            THEN PositionSeedText(mint[m].payload)
                            ELSE ResolutionSeedText(mint[m].payload))} :
       \E o \in AwaitOutcomes :
          \E r \in {Awaited(o, h)} :
             mint' = [mint EXCEPT ![m] =
                        IF ~r.ok THEN [Fail(m, r.e) EXCEPT !.rejected = TRUE]
                        ELSE IF mint[m].kind = "position"
                             THEN [mint[m] EXCEPT !.pc = "canon", !.seed = r.v, !.rejected = @ \/ ~o.ok]
                        ELSE [mint[m] EXCEPT !.pc = "hash", !.seed = r.v, !.rejected = @ \/ ~o.ok,
                                             !.svgText = buildResolutionSvg(mint[m].payload, r.v)]]
    /\ UNCHANGED <<gUsd, ctl, store>>
    /\ OtherVarsUnchanged

\* buildZkSeal's digest of the canonical string settles
CanonDigest(m) ==
    /\ mint[m].pc = "canon"
    /\ \E o \in AwaitOutcomes :
          \E r \in {Awaited(o, "")} :
             mint' = [mint EXCEPT ![m] =
                        IF ~r.ok THEN [Fail(m, r.e) EXCEPT !.rejected = TRUE]
                        ELSE [mint[m] EXCEPT !.pc = "poseidon", !.rejected = @ \/ ~o.ok]]
    /\ UNCHANGED <<gUsd, ctl, store>>
    /\ OtherVarsUnchanged

\* buildZkSeal's second digest settles; buildSvg takes the seal, reads the
\* rate and writes the container, and the mint asks for the digest of the text
PoseidonDigest(m) ==
    /\ mint[m].pc = "poseidon"
    /\ \E text \in {buildSvg(mint[m].payload, mint[m].seed, mint[m].vault, mint[m].pos, gUsd)} :
       \E o \in AwaitOutcomes :
          \E r \in {Awaited(o, "")} :
             mint' = [mint EXCEPT ![m] =
                        IF ~r.ok THEN [Fail(m, r.e) EXCEPT !.rejected = TRUE]
                        ELSE [mint[m] EXCEPT !.pc = "hash", !.rejected = @ \/ ~o.ok,
                                 !.svgText = text]]
    /\ UNCHANGED <<gUsd, ctl, store>>
    /\ OtherVarsUnchanged

\* the mint returns ok with its artifact
Return(mm, sigilId, m) ==
    Returned(mm, [ok |-> TRUE, error |-> "",
                  sigil |-> [sigilId |-> sigilId, svgHash |-> mm.svgHashHex,
                             url |-> ObjectUrl(m), payload |-> mm.payload],
                  svgText |-> mm.svgText])

\* the digest of the container text settles; the resolution mint returns
SvgDigest(m) ==
    /\ mint[m].pc = "hash"
    /\ \E h \in {sha256Hex(mint[m].svgText)} :
       \E o \in AwaitOutcomes :
          \E r \in {Awaited(o, h)} :
             mint' = [mint EXCEPT ![m] =
                        IF ~r.ok THEN [Fail(m, r.e) EXCEPT !.rejected = TRUE]
                        ELSE IF mint[m].kind = "position"
                             THEN [mint[m] EXCEPT !.pc = "derive", !.svgHashHex = r.v, !.rejected = @ \/ ~o.ok]
                        ELSE Return([mint[m] EXCEPT !.svgHashHex = r.v, !.rejected = @ \/ ~o.ok], "", m)]
    /\ UNCHANGED <<gUsd, ctl, store>>
    /\ OtherVarsUnchanged

\* derivePositionSigilId settles; the position mint returns
DeriveId(m) ==
    /\ mint[m].pc = "derive"
    /\ \E id \in {derivePositionSigilId(Get(mint[m].pos, "id").s, SigilRef(mint[m].svgHashHex))} :
       \E o \in AwaitOutcomes :
          \E r \in {Awaited(o, id)} :
             mint' = [mint EXCEPT ![m] =
                        IF ~r.ok THEN [Fail(m, r.e) EXCEPT !.rejected = TRUE]
                        ELSE Return([mint[m] EXCEPT !.rejected = @ \/ ~o.ok], r.v, m)]
    /\ UNCHANGED <<gUsd, ctl, store>>
    /\ OtherVarsUnchanged

\* run after `await mint..`: toast and, for a position, posStore.attachSigil
Settle(m) ==
    /\ ctl[m].pc = "awaiting"
    /\ Resolved(m)
    /\ ctl' = [ctl EXCEPT ![m].busy = FALSE, ![m].pc = "finished",
                          ![m].toast = IF mint[m].result.ok THEN "Minted" ELSE "Mint failed"]
    /\ store' = IF mint[m].result.ok /\ mint[m].kind = "position"
                THEN Append(store, [positionId |-> Get(mint[m].pos, "id").s,
                                    sigil |-> mint[m].result.sigil, by |-> m])
                ELSE store
    /\ UNCHANGED <<gUsd, mint>>
    /\ OtherVarsUnchanged

\* the control is dismissed
Dismiss(m) ==
    /\ ctl[m].mounted
    /\ ctl[m].pc = "awaiting"
    /\ ctl' = [ctl EXCEPT ![m].mounted = FALSE]
    /\ UNCHANGED <<gUsd, mint, store>>
    /\ OtherVarsUnchanged

\* other code of the page writes globalThis.__SM_USD_PER_PHI__
SetRate ==
    /\ \E g \in GlobalRates \ {gUsd} : gUsd' = g
    /\ UNCHANGED <<mint, ctl, store>>
    /\ OtherVarsUnchanged

NextMint ==
    \/ \E m \in Mints : Run(m)
    \/ \E m \in Mints : SeedDigest(m)
    \/ \E m \in Mints : CanonDigest(m)
    \/ \E m \in Mints : PoseidonDigest(m)
    \/ \E m \in Mints : SvgDigest(m)
    \/ \E m \in Mints : DeriveId(m)
    \/ \E m \in Mints : Settle(m)
    \/ \E m \in Mints : Dismiss(m)
    \/ SetRate

SpecMint == InitMint /\ [][NextMint]_vars

(***************************************************************************)
(* Minting properties                                                      *)
(***************************************************************************)
Minting == mint # <<>>

SameRecords(m, n) ==
    /\ mint[m].kind = mint[n].kind
    /\ mint[m].pos = mint[n].pos
    /\ mint[m].vault = mint[n].vault
    /\ mint[m].arg = mint[n].arg

\* C13: of two runs on equal records, the second started after the first
\* had returned, both ok, the results carry the same container text, the
\* same svgHash and the same sigilId.
C13_SameRecordsSameArtifact ==
    Minting =>
        \A m \in Mints, n \in Mints :
            (m \in mint[n].after /\ SameRecords(m, n) /\ mint[m].result.ok /\ mint[n].result.ok) =>
                /\ mint[m].result.svgText = mint[n].result.svgText
                /\ mint[m].result.sigil.svgHash = mint[n].result.sigil.svgHash
                /\ mint[m].result.sigil.sigilId = mint[n].result.sigil.sigilId

\* C14: a mint's container is a function of its arguments alone: mints of
\* equal records return the same container however their steps and those
\* of other tasks interleave.
C14_ResultOfArgumentsAlone ==
    Minting =>
        \A m \in Mints, n \in Mints :
            (SameRecords(m, n) /\ mint[m].result.ok /\ mint[n].result.ok) =>
                mint[m].result.svgText = mint[n].result.svgText

IsComplete(res, kind) ==
    /\ res.ok
    /\ res.error = ""
    /\ res.svgText # ""
    /\ res.sigil.svgHash # ""
    /\ res.sigil.url # ""
    /\ res.sigil.payload # Undefined
    /\ kind = "position" => res.sigil.sigilId # ""

IsErrorOnly(res) ==
    /\ ~res.ok
    /\ res.error # ""
    /\ res.sigil = NoSigil
    /\ res.svgText = ""

AttachedBy(st, m) == {i \in 1..Len(st) : st[i].by = m}

\* C16: once a control has been dismissed, its mint attaches nothing to the
\* position store.
C16_CancelledLeavesStore ==
    [][Minting => \A m \in Mints :
          ~ctl[m].mounted => Cardinality(AttachedBy(store', m)) = Cardinality(AttachedBy(store, m))]_vars

SliceOpen(s, from, to) == SubSeq(s, from + 1, Len(s))

\* s.slice(from, to) for 0 <= from, with to cut at the end of the string
Slice(s, from, to) == SubSeq(s, from + 1, IF to > Len(s) THEN Len(s) ELSE to)

\* the loop `for (i = 0; i < s.length; i += n) out.push(s.slice(i, i + n))`
RECURSIVE ChunkLoop(_, _, _, _)
ChunkLoop(s, n, i, out) ==
    IF i < Len(s) THEN ChunkLoop(s, n, i + n, Append(out, Slice(s, i, i + n))) ELSE out

chunkEvery(s, n) ==
    IF n <= 0 THEN <<s>>
    ELSE IF Len(s) <= n THEN <<s>>
    ELSE ChunkLoop(s, n, 0, <<>>)

\* Angles are counted in units of 10^-5 degree.  A floating-point angle is
\* kept as an interval [lo, hi] of such units that encloses it: the double
\* 137.50776405003785 lies between 137.50776 and 137.50777, and the rounding
\* of `-90 + idx * GOLDEN_ANGLE_DEG` (below 10^-11 degree for idx < 100) is
\* far inside the width idx * 10^-5 of the interval.
Angle(lo, hi) == [lo |-> lo, hi |-> hi]
Degrees(d) == Angle(d * 100000, d * 100000)
\* two fifths of a turn
RationalAngle == Angle(14400000, 14400000)

GOLDEN_ANGLE_DEG == Angle(13750776, 13750777)
AnglePlus(a, b) == Angle(a.lo + b.lo, a.hi + b.hi)
AngleTimes(k, a) == Angle(k * a.lo, k * a.hi)

radii == <<392, 360, 328, 296, 264>>

\* the chunk length, the span, the font size, the opacity and the letter
\* spacing that buildGoldenArcs takes for a tone
ChunkLen(tone) == IF tone = "hi" THEN 72 ELSE IF tone = "mid" THEN 84 ELSE 96
SpanOf(tone) == IF tone = "hi" THEN 128 ELSE IF tone = "mid" THEN 118 ELSE 108
FontSizeOf(tone) == IF tone = "hi" THEN "18" ELSE IF tone = "mid" THEN "13.6" ELSE "11.4"
OpacityOf(tone) == IF tone = "hi" THEN "0.78" ELSE IF tone = "mid" THEN "0.40" ELSE "0.22"
LetterSpacingOf(tone) == IF tone = "hi" THEN "0.55" ELSE IF tone = "mid" THEN "0.38" ELSE "0.30"

\* the counter a strand starts from when every strand counts its own chunks
IdxPerStrand(idx) == 0

\* the counter a strand starts from: `idx` is declared once, before the loop
\* over the strands, and is never reset
IdxCarried(idx) == idx

\* one ArcText; the path data `d` is arcPathD(500, 500, r, start, end) and is
\* kept as its arguments r, start and end
ArcOf(sigId, tone, c, idx) ==
    LET start == AnglePlus(Degrees(0 - 90), AngleTimes(idx, GOLDEN_ANGLE_DEG))
    IN  [ id |-> sigId \o "-arctext-" \o DigitsOf(idx),
          pathId |-> sigId \o "-arc-" \o DigitsOf(idx),
          r |-> radii[(idx % Len(radii)) + 1],
          start |-> start,
          end |-> AnglePlus(start, Degrees(SpanOf(tone))),
          text |-> c,
          fontSize |-> FontSizeOf(tone),
          opacity |-> OpacityOf(tone),
          letterSpacing |-> LetterSpacingOf(tone) ]

RECURSIVE SumRange(_, _, _)
SumRange(ns, lo, hi) ==
    IF lo > hi THEN 0
    ELSE IF lo = hi THEN ns[lo]
    ELSE LET mid == (lo + hi) \div 2
         IN  SumRange(ns, lo, mid) + SumRange(ns, mid + 1, hi)

\* The two nested loops push one ArcText per chunk, strand after strand, and
\* add 1 to idx after each push: the g-th ArcText pushed is the chunk number
\* g - before[k] of the strand k that holds it, and idx is then the value
\* the strand started from plus the chunks of that strand already pushed.
buildGoldenArcs(sigId, strands) ==
    LET n == Len(strands)
        chunks == Tuple([k \in 1..n |->
                     chunkEvery(strands[k].label \o ": " \o strands[k].text, ChunkLen(strands[k].tone))])
        lens == Tuple([k \in 1..n |-> Len(chunks[k])])
        before == Tuple([k \in 1..n |-> SumRange(lens, 1, k - 1)])
    IN  Tuple([g \in 1..SumRange(lens, 1, n) |->
            LET k == CHOOSE k \in 1..n : before[k] < g /\ g <= before[k] + lens[k]
            IN  ArcOf(sigId, strands[k].tone, chunks[k][g - before[k]],
                      IdxCarried(before[k]) + (g - before[k] - 1))])

\* the character as it is
KeepCase(c) == c

\* one character of String.prototype.toLowerCase
LowerChar(c) ==
    LET u == CodeUnit(c) IN IF u >= 65 /\ u <= 90 THEN CharOfCode(u + 32) ELSE c

\* hex.replace(/^0x/i, "")
StripHexPrefix(hex) ==
    IF Len(hex) >= 2 /\ SubSeq(hex, 1, 2) \in {"0x", "0X"} THEN SubSeq(hex, 3, Len(hex)) ELSE hex

\* the value hexToBits256 gives a character of the lower-cased string
NibbleOf(c) ==
    LET u == CodeUnit(c)
    IN  IF u >= 48 /\ u <= 57 THEN u - 48 ELSE IF u >= 97 /\ u <= 102 THEN u - 87 ELSE 0

BitRingLen == 256

hexToBits256(hex) ==
    LET clean == StripHexPrefix(hex)
        out == Tuple([i \in 1..(4 * Len(clean)) |->
                   LET n == NibbleOf(LowerChar(CharAt(clean, ((i - 1) \div 4) + 1)))
                   IN  (n \div (2 ^ (3 - ((i - 1) % 4)))) % 2])
    IN  IF Len(out) > BitRingLen THEN SubSeq(out, 1, BitRingLen)
        ELSE out \o Tuple([i \in 1..(BitRingLen - Len(out)) |-> 0])

RECURSIVE ConcatRange(_, _, _)
ConcatRange(parts, lo, hi) ==
    IF lo > hi THEN ""
    ELSE IF lo = hi THEN parts[lo]
    ELSE LET mid == (lo + hi) \div 2
         IN  ConcatRange(parts, lo, mid) \o ConcatRange(parts, mid + 1, hi)

bitsToBinaryString(hex) ==
    LET bits == hexToBits256(hex)
    IN  ConcatRange(Tuple([i \in 1..Len(bits) |-> IF bits[i] = 1 THEN "1" ELSE "0"]), 1, Len(bits))

(* 32-bit integers of the seed functions.  A word is the bit pattern; its  *)
(* halves as numbers keep every sum below 2^31.                            *)
HalfWord == 2 ^ 16
LoHalf(w) == LET RECURSIVE S(_) S(i) == IF i > 16 THEN 0 ELSE w[i] + 2 * S(i + 1) IN S(1)
HiHalf(w) == LET RECURSIVE S(_) S(i) == IF i > 32 THEN 0 ELSE w[i] + 2 * S(i + 1) IN S(17)
\* the upper half of the signed (int32) reading of a word
HiHalfSigned(w) == HiHalf(w) - (IF w[WordBits] = 1 THEN HalfWord ELSE 0)

\* 0x811c9dc5 = 2166136261
FnvOffsetWord == Word(33052, 40389)
FnvPrime == 16777619

\* ToUint32 of the sum of the int32 h and the uint32 words of ts, which
\* JavaScript adds exactly as doubles before `>>> 0`
SumToUint32(h, ts) ==
    LET RECURSIVE LoSum(_) LoSum(i) == IF i > Len(ts) THEN 0 ELSE LoHalf(ts[i]) + LoSum(i + 1)
        RECURSIVE HiSum(_) HiSum(i) == IF i > Len(ts) THEN 0 ELSE HiHalf(ts[i]) + HiSum(i + 1)
        lo == LoHalf(h) + LoSum(1)
        hi == HiHalfSigned(h) + HiSum(1) + (lo \div HalfWord)
    IN  Word(hi % HalfWord, lo % HalfWord)

\* the shift amounts of the diffusion step: h << 1, h << 4, h << 7, h << 8, h << 24
ShiftsWithout7 == <<1, 4, 8, 24>>
DiffusionShifts == <<1, 4, 7, 8, 24>>

\* one round of seed32FromHex and of seed32 on the code unit c
SeedRound(h, c, shifts) ==
    LET hx == Xor(h, Word(0, c))
    IN  SumToUint32(hx, Tuple([k \in 1..Len(shifts) |-> Shl(hx, shifts[k])]))

RECURSIVE SeedLoop(_, _, _, _)
SeedLoop(s, i, h, shifts) ==
    \* (the test on h has each round evaluated before the next one starts)
    IF i > Len(s) \/ Len(h) # WordBits THEN h ELSE SeedLoop(s, i + 1, SeedRound(h, CodeUnit(CharAt(s, i)), shifts), shifts)

\* PositionSigilMint.tsx
seed32FromHex(hex) == SeedLoop(hex, 1, FnvOffsetWord, DiffusionShifts)

\* ResolutionSigilMint.tsx; the mutant drops the term h << 7
seed32Without7(seed) == SeedLoop(seed, 1, FnvOffsetWord, ShiftsWithout7)

seed32(seed) == SeedLoop(seed, 1, FnvOffsetWord, DiffusionShifts)

\* Math.imul(a, m) for a multiplier 0 <= m < 2^31: the low 32 bits of the
\* product, the multiplier taken bit by bit
imul(a, m) ==
    LET bits == SelectSeq(Tuple([i \in 1..31 |-> i - 1]), LAMBDA i : (m \div (2 ^ i)) % 2 = 1)
    IN  SumToUint32(Word(0, 0), Tuple([k \in 1..Len(bits) |-> Shl(a, bits[k])]))

RECURSIVE Hash32Loop(_, _, _)
Hash32Loop(s, i, h) ==
    IF i > Len(s) \/ Len(h) # WordBits THEN h
    ELSE Hash32Loop(s, i + 1, imul(Xor(h, Word(0, CodeUnit(CharAt(s, i)))), FnvPrime))

\* MarketHeat.tsx
hash32(s) == Hash32Loop(s, 1, FnvOffsetWord)

\* --- inputs -------------------------------------------------------------
\* largest number of chunks placed by one call of buildGoldenArcs
MaxChunks == 50
\* longest string handed to chunkEvery on its own, and largest chunk length
MaxText == 10
MaxChunk == 5

Repeat(s, k) == ConcatRange(Tuple([i \in 1..k |-> s]), 1, k)

Tones == <<"hi", "mid", "low">>

\* n short strands, one chunk each, the tones in turn
ShortStrands(n) ==
    Tuple([k \in 1..n |-> [label |-> "f" \o DigitsOf(k), text |-> "v", tone |-> Tones[(k % 3) + 1]]])

\* three strands of 200, 200 and 100 characters, cut into 3, 3 and 2 chunks
LongStrands ==
    << [label |-> "payload", text |-> Repeat("0123456789", 20), tone |-> "hi"],
       [label |-> "seal", text |-> Repeat("abcdefghij", 20), tone |-> "mid"],
       [label |-> "hash", text |-> Repeat("0123456789", 10), tone |-> "low"] >>

StrandInputs ==
    {ShortStrands(n) : n \in 0..MaxChunks} \cup {LongStrands, LongStrands \o ShortStrands(3)}

HexPatterns == {"0123456789abcdef", "fedcba9876543210", "00000000ffffffff", "8421c3a5e7f0b6d9"}
UpperCase(s) == ConcatRange(Tuple([i \in 1..Len(s) |->
                    LET u == CodeUnit(CharAt(s, i))
                    IN  IF u >= 97 /\ u <= 122 THEN CharOfCode(u - 32) ELSE CharAt(s, i)]), 1, Len(s))
\* 64-digit hashes in either letter case, bare or behind 0x / 0X
HexHashes ==
    {pre \o h : pre \in {"", "0x", "0X"},
                h \in {Repeat(p, 4) : p \in HexPatterns} \cup {UpperCase(Repeat(p, 4)) : p \in HexPatterns}}
\* strings that are no 64-digit hash: short, long, not hexadecimal
OddHexStrings ==
    {"", "0x", "f", "0xF", "xyz", "12 z4", Repeat("f", 70), "0x" \o Repeat("a5", 40)}

ChunkInputs ==
    {[s |-> SubSeq(Repeat("abcdefghij", (k \div 10) + 1), 1, k), n |-> n] : k \in 0..MaxText, n \in (0 - 1)..MaxChunk}

SeedStrings ==
    {"", "a", "0", "ff", "deadbeef", "SM:RES:m1:YES:120:kai", "The quick brown fox", "~~~~"}
    \cup {Repeat(p, 4) : p \in HexPatterns}

HelpCalls ==
    {[fn |-> "chunkEvery", s |-> c.s, n |-> c.n, strands |-> <<>>] : c \in ChunkInputs}
    \cup {[fn |-> "buildGoldenArcs", s |-> "sm-pos-1a2b", n |-> 0, strands |-> st] : st \in StrandInputs}
    \cup {[fn |-> f, s |-> h, n |-> 0, strands |-> <<>>] :
            f \in {"hexToBits256", "bitsToBinaryString"}, h \in HexHashes \cup OddHexStrings}
    \cup {[fn |-> f, s |-> t, n |-> 0, strands |-> <<>>] :
            f \in {"seed32FromHex", "seed32", "hash32"}, t \in SeedStrings}

InitHelp ==
    /\ harg \in HelpCalls
    /\ hres = <<>>
    /\ hpc = "input"
    /\ CanonIdle
    /\ SealIdle
    /\ ProofIdle
    /\ RngIdle
    /\ EmbedIdle
    /\ MintIdle
    /\ ControlIdle
    /\ ExportIdle
    /\ GateIdle

HelpOthersUnchanged ==
    /\ UNCHANGED harg
    /\ UNCHANGED canonVars
    /\ UNCHANGED sealVars
    /\ UNCHANGED proofVars
    /\ UNCHANGED rngVars
    /\ UNCHANGED embedVars
    /\ UNCHANGED mintVars
    /\ UNCHANGED ctrlVars
    /\ UNCHANGED exportVars
    /\ UNCHANGED gateVars

ChunkEvery ==
    /\ hpc = "input"
    /\ harg.fn = "chunkEvery"
    /\ hres' = chunkEvery(harg.s, harg.n)
    /\ hpc' = "done"
    /\ HelpOthersUnchanged

BuildGoldenArcs ==
    /\ hpc = "input"
    /\ harg.fn = "buildGoldenArcs"
    /\ hres' = buildGoldenArcs(harg.s, harg.strands)
    /\ hpc' = "done"
    /\ HelpOthersUnchanged

HexToBits256 ==
    /\ hpc = "input"
    /\ harg.fn = "hexToBits256"
    /\ hres' = hexToBits256(harg.s)
    /\ hpc' = "done"
    /\ HelpOthersUnchanged

BitsToBinaryString ==
    /\ hpc = "input"
    /\ harg.fn = "bitsToBinaryString"
    /\ hres' = bitsToBinaryString(harg.s)
    /\ hpc' = "done"
    /\ HelpOthersUnchanged

Seed32FromHex ==
    /\ hpc = "input"
    /\ harg.fn = "seed32FromHex"
    /\ hres' = seed32FromHex(harg.s)
    /\ hpc' = "done"
    /\ HelpOthersUnchanged

Seed32 ==
    /\ hpc = "input"
    /\ harg.fn = "seed32"
    /\ hres' = seed32(harg.s)
    /\ hpc' = "done"
    /\ HelpOthersUnchanged

Hash32 ==
    /\ hpc = "input"
    /\ harg.fn = "hash32"
    /\ hres' = hash32(harg.s)
    /\ hpc' = "done"
    /\ HelpOthersUnchanged

NextHelp ==
    \/ ChunkEvery
    \/ BuildGoldenArcs
    \/ HexToBits256
    \/ BitsToBinaryString
    \/ Seed32FromHex
    \/ Seed32
    \/ Hash32

SpecHelp == InitHelp /\ [][NextHelp]_vars

(***************************************************************************)
(* Properties of the helpers.                                              *)
(***************************************************************************)
HelpReturned(fn) == hpc = "done" /\ harg.fn = fn

\* two start angles closer than this many units of 10^-5 degree coincide
AngleEpsilon == 100

\* the later angle b is more than AngleEpsilon away from a modulo 360
\* degrees: no whole number of turns lies within AngleEpsilon of b - a
Apart(a, b) ==
    LET turn == Degrees(360).lo
    IN  ((b.hi - a.lo) + AngleEpsilon) \div turn = ((b.lo - a.hi) - AngleEpsilon - 1) \div turn

\* C21: the start angles of the first n chunks placed by buildGoldenArcs,
\* n up to 50, are pairwise distinct modulo 360 degrees by more than a
\* small epsilon.
C21_StartAnglesDistinct ==
    (HelpReturned("buildGoldenArcs") /\ Len(hres) <= MaxChunks) =>
        \A i \in 1..Len(hres), j \in 1..Len(hres) :
            i < j => Apart(hres[i].start, hres[j].start)

\* a call that placed 50 chunks
C21_Witness ==
    HelpReturned("buildGoldenArcs") /\ Len(hres) = MaxChunks

\* the string behind an optional 0x prefix is a 64-digit hexadecimal hash
IsHexHash(s) ==
    LET d == IF Len(s) >= 2 /\ SubSeq(s, 1, 2) \in {"0x", "0X"} THEN SubSeq(s, 3, Len(s)) ELSE s
    IN  Len(d) = 64 /\ \A i \in 1..64 : HexVal(CharAt(d, i)) >= 0

\* bit b (0 the most significant) of the i-th hex digit (from 0) of a hash
HashBit(s, i, b) ==
    LET d == IF Len(s) >= 2 /\ SubSeq(s, 1, 2) \in {"0x", "0X"} THEN SubSeq(s, 3, Len(s)) ELSE s
    IN  (HexVal(CharAt(d, i + 1)) \div (2 ^ (3 - b))) % 2

\* C22: hexToBits256 returns exactly 256 bits for every string; for a
\* 64-digit hash in either case, with or without 0x, bits 4i..4i+3 are the
\* binary digits of the i-th hex digit, most significant first; and
\* bitsToBinaryString writes those bits as the characters 0 and 1 in order.
C22_BitRing ==
    /\ HelpReturned("hexToBits256") =>
          /\ Len(hres) = 256
          /\ \A k \in 1..Len(hres) : hres[k] \in {0, 1}
          /\ IsHexHash(harg.s) =>
                \A i \in 0..63, b \in 0..3 : hres[4 * i + b + 1] = HashBit(harg.s, i, b)
    /\ HelpReturned("bitsToBinaryString") =>
          /\ Len(hres) = 256
          /\ \A k \in 1..256 : CharAt(hres, k) = (IF hexToBits256(harg.s)[k] = 1 THEN "1" ELSE "0")
          /\ IsHexHash(harg.s) =>
                \A i \in 0..63, b \in 0..3 :
                    CharAt(hres, 4 * i + b + 1) = (IF HashBit(harg.s, i, b) = 1 THEN "1" ELSE "0")

\* the bits of an upper-case hash behind 0X, with a digit above 9 in it
C22_Witness ==
    /\ HelpReturned("hexToBits256")
    /\ IsHexHash(harg.s)
    /\ SubSeq(harg.s, 1, 2) = "0X"
    /\ \E i \in 3..Len(harg.s) : CharAt(harg.s, i) = "F"
    /\ \E k \in 1..Len(hres) : hres[k] = 1

SameTurn(a, b) ==
    LET turn == Degrees(360).lo
    IN  (a.lo - b.lo) % turn = 0 /\ (a.hi - b.hi) % turn = 0

\* C23: the k-th chunk overall starts at the previous chunk's start plus
\* the golden angle modulo 360 degrees, the first at -90 degrees, lies on
\* ring ladder[k mod 5] of 392, 360, 328, 296, 264, and the counter is never
\* restarted between strands, so the path ids are pairwise distinct.
C23_GoldenPlacement ==
    HelpReturned("buildGoldenArcs") =>
        /\ \A g \in 1..Len(hres) :
              /\ SameTurn(hres[g].start,
                          IF g = 1 THEN Degrees(0 - 90)
                          ELSE AnglePlus(hres[g - 1].start, Angle(13750776, 13750777)))
              /\ hres[g].r = <<392, 360, 328, 296, 264>>[((g - 1) % 5) + 1]
              /\ hres[g].pathId = harg.s \o "-arc-" \o DigitsOf(g - 1)
        /\ \A g \in 1..Len(hres), h \in 1..Len(hres) :
              g # h => hres[g].pathId # hres[h].pathId /\ hres[g].id # hres[h].id

\* several strands, some of them cut into several chunks
C23_Witness ==
    /\ HelpReturned("buildGoldenArcs")
    /\ Len(harg.strands) > 3
    /\ Len(hres) > Len(harg.strands) + 3

\* the chunk length of a visual tier
TierChunkLen(tone) == CASE tone = "hi" -> 72 [] tone = "mid" -> 84 [] tone = "low" -> 96

\* C24: for n > 0 the chunks of chunkEvery(s, n) concatenate to s, none is
\* longer than n and all but the last have length n; for n <= 0 the result
\* is the single chunk s; buildGoldenArcs cuts the text of a strand every
\* 72, 84 or 96 characters for the tones hi, mid and low.
C24_Chunks ==
    /\ HelpReturned("chunkEvery") =>
          IF harg.n > 0
          THEN /\ ConcatRange(hres, 1, Len(hres)) = harg.s
               /\ \A i \in 1..Len(hres) : Len(hres[i]) <= harg.n
               /\ \A i \in 1..(Len(hres) - 1) : Len(hres[i]) = harg.n
          ELSE hres = <<harg.s>>
    /\ HelpReturned("buildGoldenArcs") =>
          LET st == harg.strands
              want == Tuple([k \in 1..Len(st) |->
                          chunkEvery(st[k].label \o ": " \o st[k].text, TierChunkLen(st[k].tone))])
              lens == Tuple([k \in 1..Len(st) |-> Len(want[k])])
          IN  /\ Len(hres) = SumRange(lens, 1, Len(st))
              /\ \A k \in 1..Len(st) : \A c \in 1..Len(want[k]) :
                    hres[SumRange(lens, 1, k - 1) + c].text = want[k][c]
              /\ \A k \in 1..Len(st) :
                    /\ ConcatRange(want[k], 1, Len(want[k])) = st[k].label \o ": " \o st[k].text
                    /\ \A c \in 1..Len(want[k]) : Len(want[k][c]) <= TierChunkLen(st[k].tone)

\* a string cut into at least three chunks, the last one shorter
C24_Witness ==
    /\ HelpReturned("chunkEvery")
    /\ harg.n > 0
    /\ Len(hres) >= 3
    /\ Len(hres[Len(hres)]) < harg.n

\* a ^ b on two non-negative numbers
RECURSIVE XorNat(_, _)
XorNat(a, b) ==
    IF a = 0 /\ b = 0 THEN 0
    ELSE ((a + b) % 2) + 2 * XorNat(a \div 2, b \div 2)

\* 32-bit FNV-1a on the halves hi and lo of the hash: xor the code unit in,
\* multiply by 16777619 modulo 2^32
RECURSIVE Fnv1aFrom(_, _, _, _)
Fnv1aFrom(s, i, hi, lo) ==
    IF i > Len(s) \/ hi < 0 \/ lo < 0 THEN Word(hi, lo)
    ELSE LET x0 == XorNat(lo, CodeUnit(CharAt(s, i)))
             ph == 16777619 \div 65536
             pl == 16777619 % 65536
             low == x0 * pl
         IN  Fnv1aFrom(s, i + 1, ((low \div 65536) + hi * pl + x0 * ph) % 65536, low % 65536)

Fnv1a32(s) == Fnv1aFrom(s, 1, 33052, 40389)

\* C27: seed32FromHex, seed32 and hash32 return, for every string, the
\* same integer in [0, 2^32): the 32-bit FNV-1a hash of its code units.
C27_OneSeedFunction ==
    (hpc = "done" /\ harg.fn \in {"seed32FromHex", "seed32", "hash32"}) =>
        /\ Len(hres) = 32
        /\ \A i \in 1..32 : hres[i] \in {0, 1}
        /\ hres = Fnv1a32(harg.s)
        /\ seed32FromHex(harg.s) = seed32(harg.s)
        /\ seed32(harg.s) = hash32(harg.s)

\* seed32 of "a" is 0xe40c292c, the published FNV-1a value of that string
C27_Witness ==
    /\ HelpReturned("seed32")
    /\ harg.s = "a"
    /\ hres = Word(58380, 10540)

(***************************************************************************)
(* SpecPayload: makePayload(pos, vault) and then buildZkSeal(payload,       *)
(* vault, pos), the first two steps of mintPositionSigil, on the variables *)
(* of the seal pipeline.                                                   *)
(***************************************************************************)
\* what pos.entry.openedAt may hold
OpenedAts ==
    { Undefined, Str("soon"),
      Obj(<<"pulse", "beat", "stepIndex">>, <<Num(42), Num(3), Num(7)>>),
      Obj(<<"pulse", "beat", "stepIndex">>, <<Num(0 - 3), Half(2), NonFinite("NaN")>>),
      Obj(<<"pulse", "beat", "stepIndex">>, <<Half(0 - 1), NonFinite("Infinity"), Str("7")>>),
      Obj(<<"pulse", "beat", "stepIndex">>, <<NonFinite("-Infinity"), NegZero, Null>>),
      Obj(<<"beat">>, <<Num(5)>>) }

\* lockedStakeMicro, sharesMicro, avgPriceMicro, worstPriceMicro, feeMicro, totalCostMicro
Amounts ==
    { <<BigInt(1500000), BigInt(3000000), BigInt(500000), BigInt(510000), BigInt(0), BigInt(1500000)>>,
      <<BigInt(0), BigInt(0), BigInt(0), BigInt(0), BigInt(0), BigInt(0)>>,
      <<BigInt(0 - 5), BigInt(0 - 1), BigInt(0 - 500000), BigInt(7), BigInt(0 - 2), BigInt(0 - 1500000)>> }

\* pos.resolution and pos.settlement: open, resolved, resolved and settled
Resolutions ==
    { Obj(<<>>, <<>>),
      Obj(<<"resolution">>, <<Obj(<<"outcome", "resolvedPulse">>, <<Str("YES"), Num(120)>>)>>),
      Obj(<<"resolution", "settlement">>,
          << Obj(<<"outcome", "resolvedPulse">>, <<Str("NO"), Num(121)>>),
             Obj(<<"creditedMicro", "debitedMicro">>, <<BigInt(7000000), BigInt(0 - 2)>>) >>) }

\* proof fields carried by the position record and by its entry
PosFull ==
    Obj(<<"zkProof", "zkPublicInputs", "zkPoseidonHash", "proofHints", "verifiedBy">>,
        <<ProofSnarkjs, Arr(<<Str("1")>>), Str("11"), Obj(<<"k">>, <<Num(1)>>), Str("record")>>)
EntryFull ==
    Obj(<<"proof", "publicInputs", "zkPoseidonHashDec", "proofHints", "zkVerifier">>,
        <<ProofAltPairs, Arr(<<Str("2")>>), Str("22"), Obj(<<"k">>, <<Num(2)>>), Str("entry")>>)
PosProofParts == {PartEmpty, PosFull, PartBundle, PartHashes}
EntryProofParts == {PartEmpty, EntryFull, PartZkProof, PartInputs}

VaultProved ==
    Obj(<<"owner">>, <<Obj(<<"userPhiKey", "kaiSignature", "zkProof", "verifiedBy">>,
                           <<Str("phi1"), Str("sig1"), ProofSnarkjs, Str("owner")>>)>>)

PositionWith(opened, am, res, posPart, entryPart) ==
    WithFields(WithFields(
        Obj(<<"id", "marketId", "status", "entry", "lock">>,
            << Str("p1"), Str("m1"), Str("open"),
               WithFields(Obj(<<"side", "sharesMicro", "avgPriceMicro", "worstPriceMicro", "feeMicro",
                                "totalCostMicro", "openedAt", "venue">>,
                              <<Str("YES"), am[2], am[3], am[4], am[5], am[6], opened, Str("amm")>>),
                          entryPart),
               Obj(<<"lockedStakeMicro", "vaultId", "lockId">>, <<am[1], Str("v1"), Str("l1")>>) >>),
        res), posPart)

PayloadInputs ==
    {[pos |-> PositionWith(o, am, res, PartEmpty, PartEmpty), vault |-> VaultPlain] :
        o \in OpenedAts, am \in Amounts, res \in Resolutions}
    \cup {[pos |-> PositionWith(Undefined, CHOOSE am \in Amounts : am[1] = BigInt(1500000),
                                Obj(<<>>, <<>>), pp, ep), vault |-> v] :
            pp \in PosProofParts, ep \in EntryProofParts, v \in {VaultPlain, VaultProved}}
    \cup {[pos |-> PosRecordNoEntry, vault |-> VaultPlain]}

InitPayload ==
    /\ \E a \in PayloadInputs : pos = a.pos /\ vault = a.vault
    /\ payload = Undefined
    /\ zk = NoZk
    /\ seal = NoSeal
    /\ okWord = ""
    /\ spc = "record"
    /\ CanonIdle
    /\ ProofIdle
    /\ RngIdle
    /\ EmbedIdle
    /\ MintIdle
    /\ HelpIdle
    /\ ControlIdle
    /\ ExportIdle
    /\ GateIdle

\* const payload = makePayload(pos, vault); a TypeError ends the mint
MakePayload ==
    /\ spc = "record"
    /\ \E pl \in {makePayload(pos, vault)} :
          IF pl = TypeError THEN spc' = "threw" /\ UNCHANGED payload
          ELSE spc' = "input" /\ payload' = pl
    /\ UNCHANGED <<pos, vault, zk, seal, okWord>>
    /\ UNCHANGED canonVars
    /\ UNCHANGED proofVars
    /\ UNCHANGED rngVars
    /\ UNCHANGED embedVars
    /\ UNCHANGED mintVars
    /\ UNCHANGED helpVars
    /\ UNCHANGED ctrlVars
    /\ UNCHANGED exportVars
    /\ UNCHANGED gateVars

NextPayload == MakePayload \/ BuildZkSeal \/ BuildSvgLabel

SpecPayload == InitPayload /\ [][NextPayload]_vars

\* the proof fields of an extract: proof, public inputs, public input hash,
\* proof hints, verifier attribution
ProofFields == {"zkProof", "zkPublicInputs", "zkPoseidonHashDec", "proofHints", "verifiedBy"}

\* the value the seal carries for a proof field
SealField(f) == IF f = "zkPoseidonHashDec" THEN Str(seal.zkPoseidonHashDec) ELSE seal[f]

\* C25: when the position entry and the position record both define a proof
\* field, the seal of the mint carries the entry's value.
C25_EntryBeforeRecord ==
    (spc = "sealed" /\ isRecord(Get(pos, "entry"))) =>
        \A f \in ProofFields :
            LET e == extractZkFromUnknown(Get(pos, "entry"))[f]
                r == extractZkFromUnknown(pos)[f]
            IN  (e # Undefined /\ r # Undefined) => SealField(f) = e

NonNegativeInteger(v) == v.t = "number" /\ v.s \in {"", "-0"} /\ v.n >= 0
DigitString(v) == v.t = "string" /\ v.s # "" /\ IsDigits(v.s)
MicroFields == {"lockedStakeMicro", "sharesMicro", "avgPriceMicro", "worstPriceMicro", "feeMicro",
                "totalCostMicro"}

\* C26: in every payload returned by makePayload, openedAt.pulse, beat and
\* stepIndex are non-negative integers and every micro quantity is a string
\* of decimal digits (creditedMicro and debitedMicro when the position is
\* settled), a negative amount being written "0".
C26_PayloadMeetsSchema ==
    (spc \in {"input", "sealed", "labelled"}) =>
        /\ \A k \in {"pulse", "beat", "stepIndex"} : NonNegativeInteger(Get(Get(payload, "openedAt"), k))
        /\ \A k \in MicroFields : DigitString(Get(payload, k))
        /\ Get(Get(pos, "lock"), "lockedStakeMicro").n < 0 => Get(payload, "lockedStakeMicro") = Str("0")
        /\ \A k \in MicroFields \ {"lockedStakeMicro"} :
              Get(Get(pos, "entry"), k).n < 0 => Get(payload, k) = Str("0")
        /\ isRecord(Get(payload, "resolution")) =>
              \A k \in {"creditedMicro", "debitedMicro"} :
                  LET q == Get(Get(payload, "resolution"), k)
                  IN  /\ isRecord(Get(pos, "settlement")) => DigitString(q)
                      /\ ~isRecord(Get(pos, "settlement")) => q = Undefined
                      /\ (isRecord(Get(pos, "settlement")) /\ Get(Get(pos, "settlement"), k).n < 0)
                            => q = Str("0")

\* a settled position with negative amounts, a fractional beat and a
\* non-finite step index
C26_Witness ==
    /\ spc = "input"
    /\ Get(Get(pos, "lock"), "lockedStakeMicro").n < 0
    /\ Get(Get(Get(pos, "entry"), "openedAt"), "beat") = Half(2)
    /\ Get(Get(Get(pos, "entry"), "openedAt"), "stepIndex") = NonFinite("NaN")
    /\ Get(Get(payload, "openedAt"), "beat") = Num(2)
    /\ Get(Get(pos, "settlement"), "debitedMicro").n < 0
    /\ Get(Get(payload, "resolution"), "debitedMicro") = Str("0")

(***************************************************************************)
(* The PositionSigilMint control. A control renders `can` from the         *)
(* position it is given and `busy` from its own state; the button is       *)
(* disabled when !can || busy. run is the click handler of the last        *)
(* render; it stops at `await mintPositionSigil` and carries on when the   *)
(* mint has returned.                                                      *)
(***************************************************************************)
Controls == 1..2

\* the calls of run the model follows
MaxRuns == 3

\* the positions the mounted controls show: the same one, or one each
ControlPositions == {<<"p1", "p1">>, <<"p1", "p2">>}

\* props.position.sigil, once the store has received attachSigil for the position
SigilAttached(id) == \E i \in 1..Len(attached) : attached[i].positionId = id

\* a render: can = !props.position.sigil; disabled = !can || busy
Rendered(id, isBusy) ==
    [position |-> id, can |-> ~SigilAttached(id), disabled |-> SigilAttached(id) \/ isBusy]

InitControl ==
    /\ busy = [c \in Controls |-> FALSE]
    /\ \E ps \in ControlPositions :
          shown = [c \in Controls |-> [position |-> ps[c], can |-> TRUE, disabled |-> FALSE]]
    /\ runs = <<>>
    /\ attached = <<>>
    /\ CanonIdle
    /\ SealIdle
    /\ ProofIdle
    /\ RngIdle
    /\ EmbedIdle
    /\ MintIdle
    /\ HelpIdle
    /\ ExportIdle
    /\ GateIdle

ControlOthersUnchanged ==
    /\ UNCHANGED canonVars
    /\ UNCHANGED sealVars
    /\ UNCHANGED proofVars
    /\ UNCHANGED rngVars
    /\ UNCHANGED embedVars
    /\ UNCHANGED mintVars
    /\ UNCHANGED helpVars
    /\ UNCHANGED exportVars
    /\ UNCHANGED gateVars

\* a click on a button that is not disabled: run up to its await.
\* `if (!can) return` reads the can of the render the handler belongs to.
Click(c) ==
    /\ ~shown[c].disabled
    /\ Len(runs) < MaxRuns
    /\ IF ~shown[c].can
       THEN UNCHANGED <<busy, runs>>
       ELSE /\ busy' = [busy EXCEPT ![c] = TRUE]
            /\ runs' = Append(runs, [by |-> c, positionId |-> shown[c].position, pc |-> "minting", toast |-> ""])
    /\ UNCHANGED <<shown, attached>>
    /\ ControlOthersUnchanged

\* mintPositionSigil returns { ok: false }: toast, setBusy(false)
MintFails(r) ==
    /\ r <= Len(runs)
    /\ runs[r].pc = "minting"
    /\ runs' = [runs EXCEPT ![r].pc = "done", ![r].toast = "Mint failed"]
    /\ busy' = [busy EXCEPT ![runs[r].by] = FALSE]
    /\ UNCHANGED <<shown, attached>>
    /\ ControlOthersUnchanged

\* mintPositionSigil returns { ok: true }: attachSigil, toast, onMinted, setBusy(false)
MintSucceeds(r) ==
    /\ r <= Len(runs)
    /\ runs[r].pc = "minting"
    /\ attached' = Append(attached, [positionId |-> runs[r].positionId, by |-> runs[r].by, run |-> r])
    /\ runs' = [runs EXCEPT ![r].pc = "done", ![r].toast = "Minted"]
    /\ busy' = [busy EXCEPT ![runs[r].by] = FALSE]
    /\ UNCHANGED shown
    /\ ControlOthersUnchanged

\* React renders the control again, with the position as the store has it
Render(c) ==
    /\ shown[c] # Rendered(shown[c].position, busy[c])
    /\ shown' = [shown EXCEPT ![c] = Rendered(shown[c].position, busy[c])]
    /\ UNCHANGED <<busy, runs, attached>>
    /\ ControlOthersUnchanged

NextControl ==
    \/ \E c \in Controls : Click(c)
    \/ \E r \in 1..MaxRuns : MintFails(r)
    \/ \E r \in 1..MaxRuns : MintSucceeds(r)
    \/ \E c \in Controls : Render(c)

SpecControl == InitControl /\ [][NextControl]_vars

\* every mint that has returned is carried on with, and every pending render happens
FairControl ==
    /\ SpecControl
    /\ \A r \in 1..MaxRuns : WF_vars(MintFails(r) \/ MintSucceeds(r))

(***************************************************************************)
(* Control properties                                                      *)
(***************************************************************************)
\* C28: under every interleaving of clicks, mint completions and re-renders
\* of the control, attachSigil is called at most once per position (a
\* position that has a sigil attached is never minted again).
C28_AttachedOncePerPosition ==
    \A i, j \in 1..Len(attached) : attached[i].positionId = attached[j].positionId => i = j

\* every run that starts a mint sets busy back to false (under FairControl)
RunIs(r, pc) == r <= Len(runs) /\ runs[r].pc = pc
BusyReset == \A r \in 1..MaxRuns : RunIs(r, "minting") ~> RunIs(r, "done")

(***************************************************************************)
(* exportSigil (SigilExport). The call runs from one await to the next in  *)
(* one step: fetch of svgUrl, the load of the image, canvas.toBlob.        *)
(***************************************************************************)
\* PNG size limits and default
PngMin     == 256
PngMax     == 4096
PngDefault == 1024

RECURSIVE DropSpaces(_)
\* the text without its leading spaces
DropSpaces(s) == IF Len(s) > 0 /\ SubSeq(s, 1, 1) = " " THEN DropSpaces(SubSeq(s, 2, Len(s))) ELSE s

RECURSIVE UnderscoreSpaces(_)
\* .replace(/\s+/g, "_"): every run of white space becomes one underscore
UnderscoreSpaces(s) ==
    IF Len(s) = 0 THEN ""
    ELSE IF SubSeq(s, 1, 1) = " " THEN "_" \o UnderscoreSpaces(DropSpaces(s))
    ELSE SubSeq(s, 1, 1) \o UnderscoreSpaces(SubSeq(s, 2, Len(s)))

\* v ?? d
OrElse(v, dflt) == IF v.t \in {"undefined", "null"} THEN dflt ELSE v

\* base: (opts.filenameBase ?? "sigil").trim().replace(/\s+/g, "_")
BaseOf(opts) == UnderscoreSpaces(Trim(OrElse(Get(opts, "filenameBase"), Str("sigil")).s))

\* Math.max(256, Math.min(4096, Math.floor(opts.pngSizePx ?? 1024)))
PngSizeOf(opts) ==
    LET f == MathFloor(OrElse(Get(opts, "pngSizePx"), Num(PngDefault)))
    IN  IF f.n > PngMax THEN PngMax ELSE IF f.n < PngMin THEN PngMin ELSE f.n

ExportSvgOf(opts) == Truthy(OrElse(Get(opts, "exportSvg"), Bool(TRUE)))
ExportPngOf(opts) == Truthy(OrElse(Get(opts, "exportPng"), Bool(TRUE)))

ExportOk == [ok |-> TRUE, error |-> ""]
ExportError(msg) == [ok |-> FALSE, error |-> msg]

\* the catch block: e instanceof Error ? e.message : "export failed"
ExportCaught(e) == ExportError(IF e.t \in {"Error", "TypeError", "RangeError"} THEN e.s ELSE "export failed")

SvgFile(opts) == [name |-> BaseOf(opts) \o ".svg", type |-> "image/svg+xml", size |-> 0]
PngFile(opts) == [name |-> BaseOf(opts) \o ".png", type |-> "image/png", size |-> PngSizeOf(opts)]

OptionFields == <<"filenameBase", "svgText", "svgUrl", "pngSizePx", "exportSvg", "exportPng">>
ExportOptions ==
    {Obj(OptionFields, <<fb, st, su, sz, es, ep>>) :
        fb \in {Undefined, Str(" my  sigil ")},
        st \in {Undefined, Str(""), Str("<svg/>")},
        su \in {Undefined, Str(""), Str("blob:1")},
        sz \in {Undefined, Num(100), Num(5000), Half(512)},
        es \in {Undefined, Bool(TRUE), Bool(FALSE)},
        ep \in {Undefined, Bool(TRUE), Bool(FALSE)}}
    \cup {Null}

\* what fetchText does: the text, an empty body, a status that is not ok, a failed request
FetchOutcomes ==
    {[ok |-> TRUE, v |-> Str("<svg/>"), e |-> Undefined], [ok |-> TRUE, v |-> Str(""), e |-> Undefined],
     [ok |-> FALSE, v |-> Undefined, e |-> ErrorOf("HTTP 404")],
     [ok |-> FALSE, v |-> Undefined, e |-> JV("TypeError", "Failed to fetch", 0, <<>>, <<>>)]}

InitExport ==
    /\ xopts \in ExportOptions
    /\ xpc = "called"
    /\ xtext = Null
    /\ downloads = <<>>
    /\ xres = Undefined
    /\ CanonIdle
    /\ SealIdle
    /\ ProofIdle
    /\ RngIdle
    /\ EmbedIdle
    /\ MintIdle
    /\ HelpIdle
    /\ ControlIdle
    /\ GateIdle

ExportOthersUnchanged ==
    /\ UNCHANGED canonVars
    /\ UNCHANGED sealVars
    /\ UNCHANGED proofVars
    /\ UNCHANGED rngVars
    /\ UNCHANGED embedVars
    /\ UNCHANGED mintVars
    /\ UNCHANGED helpVars
    /\ UNCHANGED ctrlVars
    /\ UNCHANGED gateVars

\* exportSigil returns
ExportReturns(res) == xpc' = "returned" /\ xres' = res

\* from `if (!svgText)` to the await inside svgToPngBlob, or to the return
WithText(text) ==
    /\ xtext' = text
    /\ IF ~Truthy(text)
       THEN ExportReturns(ExportError("Missing svgText/svgUrl")) /\ UNCHANGED downloads
       ELSE /\ downloads' = IF ExportSvgOf(xopts) THEN Append(downloads, SvgFile(xopts)) ELSE downloads
            /\ IF ExportPngOf(xopts)
               THEN xpc' = "loading" /\ UNCHANGED xres
               ELSE ExportReturns(ExportOk)

\* the call, to its first await or to its return
ExportSigil ==
    /\ xpc = "called"
    /\ IF xopts.t # "object"
       THEN /\ ExportReturns(ExportCaught(JV("TypeError", "Cannot read properties of null", 0, <<>>, <<>>)))
            /\ UNCHANGED <<xtext, downloads>>
       ELSE IF ~ExportSvgOf(xopts) /\ ~ExportPngOf(xopts)
       THEN ExportReturns(ExportError("Nothing to export")) /\ UNCHANGED <<xtext, downloads>>
       ELSE IF Get(xopts, "svgText").t \in {"undefined", "null"} /\ Truthy(Get(xopts, "svgUrl"))
       THEN xpc' = "fetching" /\ UNCHANGED <<xtext, downloads, xres>>
       ELSE WithText(OrElse(Get(xopts, "svgText"), Null))
    /\ UNCHANGED xopts
    /\ ExportOthersUnchanged

\* `await fetchText(opts.svgUrl)` settles
FetchSettles ==
    /\ xpc = "fetching"
    /\ \E o \in FetchOutcomes :
          IF o.ok THEN WithText(o.v)
          ELSE ExportReturns(ExportCaught(o.e)) /\ UNCHANGED <<xtext, downloads>>
    /\ UNCHANGED xopts
    /\ ExportOthersUnchanged

\* svgToPngBlob: the image loads or fails; then getContext("2d") and toBlob
ImageSettles ==
    /\ xpc = "loading"
    /\ \/ ExportReturns(ExportCaught(ErrorOf("Failed to load SVG image")))
       \/ ExportReturns(ExportCaught(ErrorOf("Canvas not supported")))
       \/ xpc' = "encoding" /\ UNCHANGED xres
    /\ UNCHANGED <<xopts, xtext, downloads>>
    /\ ExportOthersUnchanged

\* canvas.toBlob calls back with a blob or with null
BlobSettles ==
    /\ xpc = "encoding"
    /\ \/ ExportReturns(ExportCaught(ErrorOf("PNG export failed"))) /\ UNCHANGED downloads
       \/ ExportReturns(ExportOk) /\ downloads' = Append(downloads, PngFile(xopts))
    /\ UNCHANGED <<xopts, xtext>>
    /\ ExportOthersUnchanged

NextExport == ExportSigil \/ FetchSettles \/ ImageSettles \/ BlobSettles

SpecExport == InitExport /\ [][NextExport]_vars

(***************************************************************************)
(* Export properties                                                       *)
(***************************************************************************)
Downloaded(type) == \E i \in 1..Len(downloads) : downloads[i].type = type

\* C29: exportSigil is all-or-nothing: it returns {ok: false} only if no
\* download was triggered and {ok: true} only after every requested format
\* was downloaded; with both formats disabled, or with neither svgText nor
\* svgUrl, it returns an error without downloading.
C29_AllOrNothing ==
    xpc = "returned" =>
        /\ ~xres.ok => downloads = <<>>
        /\ xres.ok => /\ ExportSvgOf(xopts) => Downloaded("image/svg+xml")
                      /\ ExportPngOf(xopts) => Downloaded("image/png")
        /\ (xopts.t = "object" /\ ~ExportSvgOf(xopts) /\ ~ExportPngOf(xopts)) => ~xres.ok
        /\ (xopts.t = "object" /\ ~Truthy(Get(xopts, "svgText")) /\ ~Truthy(Get(xopts, "svgUrl"))) => ~xres.ok

(***************************************************************************)
(* InhaleGlyphGate: onPickFile reads the picked file and digests its text, *)
(* one await each; inhale derives the vault id from the svgHash and the    *)
(* keys of the render it belongs to.                                       *)
(***************************************************************************)
\* the calls of onPickFile the model follows
MaxPicks == 3

\* identity sigils on disk: one that embeds its keys, one that does not,
\* one that cannot be read
GlyphFiles ==
    {[name |-> "a.svg", text |-> "<svg>A</svg>", readable |-> TRUE, pk |-> "phiA", ks |-> "sigA"],
     [name |-> "b.svg", text |-> "<svg>B</svg>", readable |-> TRUE, pk |-> "", ks |-> ""],
     [name |-> "c.svg", text |-> "", readable |-> FALSE, pk |-> "", ks |-> ""]}

\* the dialog was dismissed: onPickFile(null)
NoFile == [name |-> "", text |-> "", readable |-> FALSE, pk |-> "", ks |-> ""]

NoInhale == [svgHash |-> "", userPhiKey |-> "", kaiSignature |-> "", lastPick |-> 0]

\* the keys the user has typed before picking
TypedKeys == {<<"", "">>, <<"phi1", "sig1">>}

InitGate ==
    /\ picks = <<>>
    /\ \E k \in TypedKeys :
          gate = [open |-> TRUE, fileName |-> "", svgHash |-> Null, userPhiKey |-> k[1], kaiSignature |-> k[2],
                  err |-> Null, busy |-> FALSE, inhaling |-> NoInhale]
    /\ vaults = <<>>
    /\ CanonIdle
    /\ SealIdle
    /\ ProofIdle
    /\ RngIdle
    /\ EmbedIdle
    /\ MintIdle
    /\ HelpIdle
    /\ ControlIdle
    /\ ExportIdle

GateOthersUnchanged ==
    /\ UNCHANGED canonVars
    /\ UNCHANGED sealVars
    /\ UNCHANGED proofVars
    /\ UNCHANGED rngVars
    /\ UNCHANGED embedVars
    /\ UNCHANGED mintVars
    /\ UNCHANGED helpVars
    /\ UNCHANGED ctrlVars
    /\ UNCHANGED exportVars

\* onPickFile, to `await readFileAsText(f)`; userPhiKey and kaiSignature are
\* those of the render the handler belongs to
OnPickFile(f) ==
    /\ gate.open
    /\ Len(picks) < MaxPicks
    /\ gate' = [gate EXCEPT !.err = Null, !.svgHash = Null,
                            !.fileName = IF f = NoFile THEN @ ELSE f.name]
    /\ picks' = Append(picks, [file |-> f, pc |-> IF f = NoFile THEN "none" ELSE "reading",
                               userPhiKey |-> gate.userPhiKey, kaiSignature |-> gate.kaiSignature])
    /\ UNCHANGED vaults
    /\ GateOthersUnchanged

\* readFileAsText settles: onload, or onerror and the catch block
ReadSettles(p) ==
    /\ p <= Len(picks)
    /\ picks[p].pc = "reading"
    /\ IF picks[p].file.readable
       THEN picks' = [picks EXCEPT ![p].pc = "hashing"] /\ UNCHANGED gate
       ELSE picks' = [picks EXCEPT ![p].pc = "failed"] /\ gate' = [gate EXCEPT !.err = Str("Failed to read file")]
    /\ UNCHANGED vaults
    /\ GateOthersUnchanged

\* the hash setSvgHash is given: asSvgHash(await sha256Hex(text))
HashOfPick(p) == sha256Hex(picks[p].file.text)

\* `await sha256Hex(text)` settles: setSvgHash and the embedded keys, or the catch block
DigestSettles(p) ==
    /\ p <= Len(picks)
    /\ picks[p].pc = "hashing"
    /\ \E o \in AwaitOutcomes :
          IF o.ok
          THEN /\ picks' = [picks EXCEPT ![p].pc = "done"]
               /\ gate' = [gate EXCEPT
                    !.svgHash = Str(HashOfPick(p)),
                    !.userPhiKey = IF picks[p].file.pk # "" /\ Trim(picks[p].userPhiKey) = ""
                                   THEN picks[p].file.pk ELSE @,
                    !.kaiSignature = IF picks[p].file.ks # "" /\ Trim(picks[p].kaiSignature) = ""
                                     THEN picks[p].file.ks ELSE @]
          ELSE /\ picks' = [picks EXCEPT ![p].pc = "failed"]
               /\ gate' = [gate EXCEPT !.err = Str(IF o.e.t = "Error" THEN o.e.s ELSE "Failed to inhale")]
    /\ UNCHANGED vaults
    /\ GateOthersUnchanged

\* canInhale
CanInhale == gate.svgHash # Null /\ Trim(gate.userPhiKey) # "" /\ Trim(gate.kaiSignature) # ""

\* inhale, to `await deriveVaultId`
Inhale ==
    /\ gate.open
    /\ CanInhale
    /\ ~gate.busy
    /\ gate' = [gate EXCEPT !.busy = TRUE, !.err = Null,
                            !.inhaling = [svgHash |-> gate.svgHash.s, userPhiKey |-> Trim(gate.userPhiKey),
                                          kaiSignature |-> Trim(gate.kaiSignature), lastPick |-> Len(picks)]]
    /\ UNCHANGED <<picks, vaults>>
    /\ GateOthersUnchanged

\* deriveVaultId settles: createOrActivateVault, popSheet and reset, or the catch block
VaultDerived ==
    /\ gate.busy
    /\ \E o \in AwaitOutcomes :
          IF o.ok
          THEN /\ vaults' = Append(vaults, [vaultId |-> sha256Hex(gate.inhaling.userPhiKey \o ":" \o gate.inhaling.svgHash),
                                            userPhiKey |-> gate.inhaling.userPhiKey,
                                            kaiSignature |-> gate.inhaling.kaiSignature,
                                            svgHash |-> gate.inhaling.svgHash,
                                            lastPick |-> gate.inhaling.lastPick])
               /\ gate' = [open |-> FALSE, fileName |-> "", svgHash |-> Null, userPhiKey |-> "", kaiSignature |-> "",
                           err |-> Null, busy |-> FALSE, inhaling |-> NoInhale]
          ELSE /\ gate' = [gate EXCEPT !.err = Str(IF o.e.t = "Error" THEN o.e.s ELSE "Inhale failed"),
                                       !.busy = FALSE, !.inhaling = NoInhale]
               /\ UNCHANGED vaults
    /\ UNCHANGED picks
    /\ GateOthersUnchanged

NextGate ==
    \/ \E f \in GlyphFiles \cup {NoFile} : OnPickFile(f)
    \/ \E p \in 1..MaxPicks : ReadSettles(p)
    \/ \E p \in 1..MaxPicks : DigestSettles(p)
    \/ Inhale
    \/ VaultDerived

SpecGate == InitGate /\ [][NextGate]_vars

(***************************************************************************)
(* Gate properties                                                         *)
(***************************************************************************)
\* every read and every digest has settled
PicksSettled == \A p \in 1..Len(picks) : picks[p].pc \in {"none", "done", "failed"}

\* C30: once every pending read and digest has completed, the svgHash held
\* by the gate is the hash of the most recently picked file, and a vault
\* created by inhale is derived from the file picked last.
C30_LastPickWins ==
    /\ (gate # Undefined /\ gate.open /\ picks # <<>> /\ PicksSettled /\ picks[Len(picks)].pc = "done")
          => gate.svgHash = Str(HashOfPick(Len(picks)))
    /\ \A i \in 1..Len(vaults) :
          picks[vaults[i].lastPick].pc = "done" => vaults[i].svgHash = HashOfPick(vaults[i].lastPick)

====
